---- MODULE Spec2Model ----
(***************************************************************************)
(* Candidate-assessment flow of the hiring application: the phase          *)
(* coordinator (TestCoordinator), the typing test (TypingTest) and the AI  *)
(* interview (AIInterview) of src/components/testing/TestCoordinator.tsx,  *)
(* the testing-handler edge function of README.md and the rows of the      *)
(* "jobs" and "applications" tables they read and write.                   *)
(*                                                                         *)
(* Every event handler runs to completion before the next event is taken   *)
(* (one JavaScript thread).  An async function is one step up to its first *)
(* await and one step from there on.  A handler run by a DOM event is      *)
(* rendered before the next event; the state a countdown effect sets is    *)
(* rendered later, and until then the DOM of the previous render takes     *)
(* the events.                                                             *)
(***************************************************************************)
EXTENDS Integers, Sequences, FiniteSets, TLC

(***************************************************************************)
(* Bounds of the model.                                                    *)
(***************************************************************************)
\* largest total_interview_questions a job row carries
MaxTotalQuestions == 2
\* most Answer records the interview keeps before further submits are cut off
MaxAnswers == 3
\* length of the reference paragraph of the typing test
TextLen == 2
\* most keystroke records kept by the fraud detector
MaxKeystrokes == 2
\* most focus losses counted
MaxFocusLoss == 3
\* seconds of the question countdown that one Tick step stands for
TickSeconds == 600
\* the typing_test_results rows an application of the exam list carries
MaxResults == 2

(***************************************************************************)
(* Optional values (null / undefined of the source).                       *)
(***************************************************************************)
Null == <<>>
Some(x) == <<x>>
Val(v) == v[1]

\* Math.round(num / den) for num >= 0, den > 0
Round(num, den) == (2 * num + den) \div (2 * den)

Min(a, b) == IF a < b THEN a ELSE b
Max(a, b) == IF a > b THEN a ELSE b

RECURSIVE SumSeq(_)
SumSeq(s) == IF s = <<>> THEN 0 ELSE Head(s) + SumSeq(Tail(s))

\* Array.prototype.find / findIndex with the test x => x[field] === value:
\* the position of the first match, 0 when there is none
FindIndex(s, field, value) ==
    IF \E i \in 1..Len(s) : s[i][field] = value
    THEN CHOOSE i \in 1..Len(s) :
            s[i][field] = value /\ \A j \in 1..(i - 1) : s[j][field] # value
    ELSE 0

(***************************************************************************)
(* State.                                                                  *)
(***************************************************************************)
VARIABLES
    \* rows of the store
    jobData,            \* the row of table "jobs" for jobId
    applicationData,    \* the row of table "applications" for applicationId
    issuedUpdates,      \* every update of the application row that was requested
    tables,             \* rows of typing_test_results, interview_questions and
                        \* interview_results
    \* useTestingSystem
    hook,
    \* the async functions suspended at an await: the results that
    \* handleTestComplete and completeInterview will hand to onComplete, in
    \* the order in which they were called, and the operations of
    \* useTestingSystem that await their response
    continuations,
    \* TestCoordinator
    initialized,        \* the mount effect has run initializeTest to its end
    loading,
    jobConfig,
    candidateInfo,
    currentPhase,
    testPhases,
    overallResults,
    switchTimer,        \* pending setTimeout callbacks of handleTypingTestComplete
    completeInterviewCalls, \* how often completeInterview has run
    toasts,             \* titles of the toasts shown so far
    \* TypingTest and AIInterview, the children the coordinator mounts
    typingTest,
    interview,
    \* the function of the components that was evaluated last on its own,
    \* with its arguments and its result
    evaluated,
    \* the phase whose onCancel ran since a phase was last started or
    \* completed, if any
    cancelled

coordVars == <<initialized, loading, jobConfig, candidateInfo, currentPhase,
               testPhases, overallResults, switchTimer, completeInterviewCalls,
               toasts>>
storeVars == <<jobData, applicationData, issuedUpdates, tables, hook>>
vars == <<jobData, applicationData, issuedUpdates, tables, hook, continuations,
          initialized, loading,
          jobConfig, candidateInfo, currentPhase, testPhases, overallResults,
          switchTimer, completeInterviewCalls, toasts, typingTest, interview,
          evaluated, cancelled>>

(***************************************************************************)
(* The rows the session starts from.                                       *)
(***************************************************************************)
\* the default question distribution of initializeTest
DefaultDistribution ==
    [coding |-> 30, dsa |-> 25, education |-> 15, achievements |-> 15,
     problem_solving |-> 15]

\* the five categories, in the order the default distribution lists them
Categories == <<"coding", "dsa", "education", "achievements", "problem_solving">>

\* Object.keys(config.questionDistribution), in insertion order
ObjectKeys(distribution) ==
    SelectSeq(Categories, LAMBDA c : c \in DOMAIN distribution)

\* a distribution that asks for coding questions only
CodingOnlyDistribution ==
    [coding |-> 100, dsa |-> 0, education |-> 0, achievements |-> 0,
     problem_solving |-> 0]

\* question_distribution values persisted as text: a text that is no JSON,
\* the JSON of a map that lacks four of the five categories, and the JSON of
\* an empty array
MalformedDistributions ==
    {[text |-> "not json"], [text |-> "{\"coding\":100}"], [text |-> "[]"]}

AtsMinimumScores == {50}
AiScores == {Null, Some(40), Some(50)}
MinimumPassingScores == {70}

\* the thresholds are the speed and the accuracy of one correct character
\* typed in one second, so that a result can meet them exactly
TypingSettings ==
    [minimum_wpm : {12}, minimum_accuracy : {100}, typing_test_duration : {2},
     fraud_detection_enabled : BOOLEAN]

JobRow(typing, enabled, total, distribution, ats, passing) ==
    [ats_minimum_score |-> ats,
     typing_test_enabled |-> enabled,
     minimum_wpm |-> typing.minimum_wpm,
     minimum_accuracy |-> typing.minimum_accuracy,
     typing_test_duration |-> typing.typing_test_duration,
     fraud_detection_enabled |-> typing.fraud_detection_enabled,
     total_interview_questions |-> total,
     question_distribution |-> distribution,
     minimum_passing_score |-> passing]

\* The job rows a session is started for: jobs without a typing test and the
\* default distribution, with the smallest and the largest number of
\* questions (no question for 1, two questions for 2 or 3), jobs without a
\* typing test whose distribution is persisted as a malformed text, and jobs
\* with a typing test and an interview of at most one question; the jobs
\* with fraud detection have the default distribution
JobRows ==
    {JobRow(t, FALSE, n, Null, a, p) :
        t \in {ts \in TypingSettings : ~ts.fraud_detection_enabled},
        n \in {1, MaxTotalQuestions},
        a \in AtsMinimumScores, p \in MinimumPassingScores}
    \cup
    {JobRow(t, FALSE, 1, Some(m), a, p) :
        t \in {ts \in TypingSettings : ~ts.fraud_detection_enabled},
        m \in MalformedDistributions,
        a \in AtsMinimumScores, p \in MinimumPassingScores}
    \cup
    {JobRow(td[1], TRUE, 1, td[2], a, p) :
        td \in {x \in TypingSettings \X {Null, Some(CodingOnlyDistribution)} :
                   x[1].fraud_detection_enabled => x[2] = Null},
        a \in AtsMinimumScores, p \in MinimumPassingScores}

ApplicationRows ==
    [ai_score : AiScores, status : {"Applied"}, pipeline_stage : {"Applied"}]

\* An answer text, by what the code reads of it: answer.length and whether
\* answer.trim() is empty
EmptyText == [length |-> 0, blank |-> TRUE]
AnswerTexts ==
    {EmptyText, [length |-> 900, blank |-> FALSE]}

\* useState initial values of the two children; "unmounted" stands for a
\* component that is not rendered (React discards its state); shown is the
\* testState of the render the DOM was last committed from
TypingUnmounted ==
    [testState |-> "unmounted", shown |-> "unmounted",
     currentText |-> <<>>, userInput |-> <<>>,
     timeRemaining |-> 0, started |-> FALSE, keystrokeData |-> <<>>,
     focusLostCount |-> 0, fraudAlerts |-> <<>>]

InterviewUnmounted ==
    [interviewState |-> "unmounted", questions |-> <<>>,
     currentQuestionIndex |-> 0, answers |-> <<>>, currentAnswer |-> EmptyText,
     timeRemaining |-> 0, isSubmitting |-> FALSE]

Init ==
    /\ jobData \in JobRows
    /\ applicationData \in ApplicationRows
    /\ issuedUpdates = {}
    /\ tables = [typing_test_results |-> <<>>, interview_questions |-> <<>>,
                 interview_results |-> <<>>]
    /\ hook = [loading |-> FALSE, error |-> Null, jobConfig |-> Null,
               applicationData |-> Null, typingResults |-> Null,
               interviewResults |-> Null]
    /\ continuations = <<>>
    /\ initialized = FALSE
    /\ loading = TRUE
    /\ jobConfig = Null
    /\ candidateInfo = Null
    /\ currentPhase = "overview"
    /\ testPhases = <<>>
    /\ overallResults = Null
    /\ switchTimer = 0
    /\ completeInterviewCalls = 0
    /\ toasts = {}
    /\ typingTest = TypingUnmounted
    /\ interview = InterviewUnmounted
    /\ evaluated = Null
    /\ cancelled = Null

(***************************************************************************)
(* TestCoordinator.initializeTest                                          *)
(***************************************************************************)
\* a variant that takes an absent score for a full one
CandidateAtsScoreOr100(application) ==
    IF application.ai_score = Null \/ application.ai_score = Some(0)
    THEN 100
    ELSE Val(application.ai_score)

\* applicationData.ai_score || 0
CandidateAtsScore(application) ==
    IF application.ai_score = Null \/ application.ai_score = Some(0)
    THEN 0
    ELSE Val(application.ai_score)

\* the guard of the early return of initializeTest
AtsRequirementNotMet(score, job) == score < job.ats_minimum_score

\* typeof value === 'string'
IsString(value) == "text" \in DOMAIN value

\* JSON.parse of the persisted texts: Null for a SyntaxError, and the value
\* otherwise (an array without elements has no keys)
JSONParse(text) ==
    CASE text = "{\"coding\":100}" -> Some([coding |-> 100])
      [] text = "[]" -> Some(<<>>)
      [] OTHER -> Null

\* the question distribution initializeTest hands on: the default when the
\* column is falsy or JSON.parse throws, the parsed text or the object as it
\* is otherwise
ParseQuestionDistribution(raw) ==
    IF raw = Null THEN DefaultDistribution
    ELSE IF IsString(Val(raw))
         THEN IF Val(raw).text = "" \/ JSONParse(Val(raw).text) = Null
              THEN DefaultDistribution
              ELSE Val(JSONParse(Val(raw).text))
         ELSE Val(raw)

MakeJobConfig(job) ==
    [typingTestEnabled |-> job.typing_test_enabled,
     minimumWpm |-> job.minimum_wpm,
     minimumAccuracy |-> job.minimum_accuracy,
     typingTestDuration |-> job.typing_test_duration,
     fraudDetectionEnabled |-> job.fraud_detection_enabled,
     totalInterviewQuestions |-> job.total_interview_questions,
     questionDistribution |-> ParseQuestionDistribution(job.question_distribution),
     minimumPassingScore |-> job.minimum_passing_score,
     atsMinimumScore |-> job.ats_minimum_score]

Phase(id, status, results) ==
    [id |-> id, status |-> status, required |-> TRUE, results |-> results]

\* the phase list built at the end of initializeTest
InitialPhases(config, candidateAtsScore) ==
    <<Phase("ats-check",
            IF candidateAtsScore >= config.atsMinimumScore
            THEN "completed" ELSE "failed",
            Some([score |-> candidateAtsScore, required |-> config.atsMinimumScore]))>>
    \o (IF config.typingTestEnabled
        THEN <<Phase("typing-test", "pending", Null)>> ELSE <<>>)
    \o <<Phase("ai-interview", "pending", Null)>>

\* a variant that reports a failed fetch and goes on
initializeTestGoesOn(jobError, appError) ==
    /\ ~initialized
    /\ initialized' = TRUE
    /\ LET candidateAtsScore == CandidateAtsScore(applicationData)
           config == MakeJobConfig(jobData)
           reported == IF jobError \/ appError THEN {"Initialization Error"} ELSE {}
       IN  IF AtsRequirementNotMet(candidateAtsScore, jobData)
           THEN /\ toasts' = toasts \cup reported \cup {"ATS Score Requirement Not Met"}
                /\ UNCHANGED <<loading, jobConfig, candidateInfo, testPhases>>
           ELSE /\ jobConfig' = Some(config)
                /\ candidateInfo' = Some([atsScore |-> candidateAtsScore])
                /\ testPhases' = InitialPhases(config, candidateAtsScore)
                /\ loading' = FALSE
                /\ toasts' = toasts \cup reported
    /\ UNCHANGED <<currentPhase, overallResults, switchTimer, completeInterviewCalls>>
    /\ UNCHANGED <<storeVars, evaluated, cancelled, continuations, typingTest, interview>>

initializeTest(jobError, appError) ==
    /\ ~initialized
    /\ initialized' = TRUE
    /\ IF jobError \/ appError
       THEN /\ toasts' = toasts \cup {"Initialization Error"}
            /\ UNCHANGED <<loading, jobConfig, candidateInfo, testPhases>>
       ELSE LET candidateAtsScore == CandidateAtsScore(applicationData)
                config == MakeJobConfig(jobData)
            IN  IF AtsRequirementNotMet(candidateAtsScore, jobData)
                THEN /\ toasts' = toasts \cup {"ATS Score Requirement Not Met"}
                     /\ UNCHANGED <<loading, jobConfig, candidateInfo, testPhases>>
                ELSE /\ jobConfig' = Some(config)
                     /\ candidateInfo' = Some([atsScore |-> candidateAtsScore])
                     /\ testPhases' = InitialPhases(config, candidateAtsScore)
                     /\ loading' = FALSE
                     /\ UNCHANGED toasts
    /\ UNCHANGED <<currentPhase, overallResults, switchTimer, completeInterviewCalls>>
    /\ UNCHANGED <<storeVars, evaluated, cancelled, continuations, typingTest, interview>>

(***************************************************************************)
(* TestCoordinator: what it renders.                                       *)
(***************************************************************************)
\* the loading card of the render
ShowsLoading(ld, cfg, cand) == ld \/ cfg = Null \/ cand = Null

\* a variant whose interview branch keeps the typing test on screen
RenderedChildrenBoth(ld, cfg, cand, phase) ==
    IF ShowsLoading(ld, cfg, cand) THEN {}
    ELSE IF phase = "typing-test" /\ Val(cfg).typingTestEnabled THEN {"typing-test"}
    ELSE IF phase = "ai-interview"
         THEN {"ai-interview"}
              \cup (IF Val(cfg).typingTestEnabled THEN {"typing-test"} ELSE {})
    ELSE {}

\* the children the render returns: TypingTest, AIInterview or neither
\* (the loading card or the overview)
RenderedChildren(ld, cfg, cand, phase) ==
    IF ShowsLoading(ld, cfg, cand) THEN {}
    ELSE IF phase = "typing-test" /\ Val(cfg).typingTestEnabled THEN {"typing-test"}
    ELSE IF phase = "ai-interview" THEN {"ai-interview"}
    ELSE {}

ShowsOverview ==
    /\ ~ShowsLoading(loading, jobConfig, candidateInfo)
    /\ RenderedChildren(loading, jobConfig, candidateInfo, currentPhase) = {}

\* the reference paragraphs of the typing test
ReferenceText == [i \in 1..TextLen |-> IF i % 2 = 1 THEN "a" ELSE "b"]
TEST_PARAGRAPHS == {ReferenceText}
Alphabet == {"a", "b"}

\* a freshly mounted TypingTest, after its mount effect chose the paragraph
TypingMounted(config, text) ==
    [TypingUnmounted EXCEPT !.testState = "ready", !.shown = "ready",
                            !.currentText = text,
                            !.timeRemaining = config.typingTestDuration]

\* a freshly mounted AIInterview
InterviewMounted == [InterviewUnmounted EXCEPT !.interviewState = "loading"]

\* a variant in which a child that is no longer rendered keeps its state
CommitRenderKeepingState(typingPost, interviewPost) ==
    LET shown == RenderedChildren(loading', jobConfig', candidateInfo', currentPhase')
    IN  /\ \E text \in TEST_PARAGRAPHS :
              typingTest' = IF "typing-test" \in shown
                               /\ typingPost.testState = "unmounted"
                            THEN TypingMounted(Val(jobConfig'), text)
                            ELSE typingPost
        /\ interview' = IF "ai-interview" \in shown
                           /\ interviewPost.interviewState = "unmounted"
                        THEN InterviewMounted
                        ELSE interviewPost

\* React commits the coordinator's new state: a child that is no longer
\* rendered loses its state, a child rendered for the first time is mounted,
\* a child that stays keeps the state its own handler left (typingPost,
\* interviewPost)
CommitRender(typingPost, interviewPost) ==
    LET shown == RenderedChildren(loading', jobConfig', candidateInfo', currentPhase')
    IN  /\ \E text \in TEST_PARAGRAPHS :
              typingTest' = IF "typing-test" \notin shown THEN TypingUnmounted
                            ELSE IF typingPost.testState = "unmounted"
                                 THEN TypingMounted(Val(jobConfig'), text)
                                 ELSE typingPost
        /\ interview' = IF "ai-interview" \notin shown THEN InterviewUnmounted
                        ELSE IF interviewPost.interviewState = "unmounted"
                             THEN InterviewMounted
                             ELSE interviewPost

(***************************************************************************)
(* TestCoordinator: handlers.                                              *)
(***************************************************************************)
\* no completion is suspended at an await: the promises awaited by
\* handleTestComplete and completeInterview are settled when they are
\* awaited, so the continuations run before the next timer fires and before
\* the overview is rendered and takes a click
Settled == continuations = <<>>

\* a variant that takes the last pending phase
NextPendingPhaseLast(phases) ==
    LET pending == {i \in 1..Len(phases) : phases[i].status = "pending"}
    IN  IF pending = {} THEN 0
        ELSE CHOOSE i \in pending : \A j \in pending : j <= i

\* testPhases.find(phase => phase.status === 'pending')
NextPendingPhase(phases) == FindIndex(phases, "status", "pending")

\* the Start Next Phase button is rendered and not disabled
StartButtonEnabled ==
    /\ ShowsOverview
    /\ overallResults = Null
    /\ Val(candidateInfo).atsScore >= Val(jobConfig).atsMinimumScore
    /\ ~(\A i \in 1..Len(testPhases) :
            \/ testPhases[i].status # "pending"
            \/ (testPhases[i].id = "typing-test" /\ ~Val(jobConfig).typingTestEnabled))

startNextPhase ==
    /\ StartButtonEnabled
    /\ Settled
    /\ LET nextPhase == NextPendingPhase(testPhases)
       IN  currentPhase' = IF nextPhase # 0 THEN testPhases[nextPhase].id
                           ELSE currentPhase
    /\ cancelled' = Null
    /\ UNCHANGED <<initialized, loading, jobConfig, candidateInfo, testPhases,
                   overallResults, switchTimer, completeInterviewCalls, toasts,
                   storeVars, evaluated, continuations>>
    /\ CommitRender(typingTest, interview)

\* prev.map(phase => phase.id === id ? {...phase, status, results} : phase)
SetPhaseResults(phases, id, results) ==
    [i \in 1..Len(phases) |->
        IF phases[i].id = id
        THEN [phases[i] EXCEPT !.status = IF results.passed THEN "completed" ELSE "failed",
                               !.results = Some(results)]
        ELSE phases[i]]

HasPhase(phases, id) == \E i \in 1..Len(phases) : phases[i].id = id

PhaseOf(phases, id) == phases[FindIndex(phases, "id", id)]

\* handleTypingTestComplete, up to the state the coordinator is left in
handleTypingTestComplete(results) ==
    /\ testPhases' = SetPhaseResults(testPhases, "typing-test", results)
    /\ IF results.passed
       THEN IF HasPhase(testPhases, "ai-interview")
            THEN /\ currentPhase' = "overview"
                 /\ switchTimer' = switchTimer + 1
            ELSE UNCHANGED <<currentPhase, switchTimer>>
       ELSE /\ currentPhase' = "overview"
            /\ UNCHANGED switchTimer
    /\ UNCHANGED <<initialized, loading, jobConfig, candidateInfo, overallResults,
                   completeInterviewCalls, toasts, storeVars, evaluated>>
    /\ cancelled' = Null

\* the callback of the setTimeout of handleTypingTestComplete
phaseSwitchTimeout ==
    /\ switchTimer > 0
    /\ Settled
    /\ switchTimer' = switchTimer - 1
    /\ currentPhase' = "ai-interview"
    /\ cancelled' = Null
    /\ UNCHANGED <<initialized, loading, jobConfig, candidateInfo, testPhases,
                   overallResults, completeInterviewCalls, toasts, storeVars,
                   evaluated, continuations>>
    /\ CommitRender(typingTest, interview)

\* the update of the application row that handleInterviewComplete requests
InterviewStatusUpdate(results) ==
    [status |-> Some(IF results.passed THEN "Under Review" ELSE "Rejected"),
     pipeline_stage |-> Null,
     ai_score |-> Some(IF results.passed THEN Some(results.percentageScore) ELSE Null)]

\* supabase .update(columns): the columns named are written, the others kept
ApplyUpdate(row, update) ==
    [row EXCEPT !.status = IF update.status = Null THEN @ ELSE Val(update.status),
                !.pipeline_stage = IF update.pipeline_stage = Null THEN @
                                   ELSE Val(update.pipeline_stage),
                !.ai_score = IF update.ai_score = Null THEN @ ELSE Val(update.ai_score)]

\* handleInterviewComplete; updateOk: the store applied the update
handleInterviewComplete(results, updateOk) ==
    /\ testPhases' = SetPhaseResults(testPhases, "ai-interview", results)
    /\ overallResults' =
          Some([typingTestResults |->
                    IF HasPhase(testPhases, "typing-test")
                    THEN PhaseOf(testPhases, "typing-test").results ELSE Null,
                interviewResults |-> results,
                overallPassed |-> results.passed])
    /\ currentPhase' = "overview"
    /\ LET update == InterviewStatusUpdate(results)
       IN  /\ issuedUpdates' = issuedUpdates \cup
                  {[by |-> "handleInterviewComplete", update |-> update,
                    passed |-> results.passed,
                    percentageScore |-> results.percentageScore]}
           /\ applicationData' = IF updateOk THEN ApplyUpdate(applicationData, update)
                                 ELSE applicationData
    /\ UNCHANGED <<initialized, loading, jobConfig, candidateInfo, switchTimer,
                   toasts, jobData, tables, hook, evaluated>>
    /\ cancelled' = Null

\* onCancel of TypingTest (the Cancel Test button of the running or
\* completed test)
typingCancel ==
    /\ typingTest.shown \in {"active", "completed"}
    /\ currentPhase' = "overview"
    /\ cancelled' = Some("typing-test")
    /\ UNCHANGED <<initialized, loading, jobConfig, candidateInfo, testPhases,
                   overallResults, switchTimer, completeInterviewCalls, toasts,
                   storeVars, evaluated, continuations>>
    /\ CommitRender(typingTest, interview)

(***************************************************************************)
(* TypingTest.                                                             *)
(* Time: one typingTick is one second of the countdown; the test starts    *)
(* with timeRemaining = duration, so Date.now() - startTime is             *)
(* duration - timeRemaining seconds.  The milliseconds between two         *)
(* keystrokes are an input of handleInputChange.                           *)
(***************************************************************************)
KeystrokeIntervals == {30, 100}

\* number of positions i <= min(len(input), len(text)) at which input and
\* text agree (equal = TRUE) or differ (equal = FALSE)
CountPositions(input, text, equal) ==
    Cardinality({i \in 1..Min(Len(input), Len(text)) : (input[i] = text[i]) = equal})

\* a variant that takes the accuracy over the length of the text
calculateStatsOverText(input, text, elapsedSeconds, keystrokes) ==
    LET correctChars == CountPositions(input, text, TRUE)
        errors == CountPositions(input, text, FALSE)
    IN  [wpm |-> IF elapsedSeconds > 0
                 THEN Round(correctChars * 12, elapsedSeconds) ELSE 0,
         accuracy |-> IF Len(input) > 0
                      THEN Round(correctChars * 100, Max(Len(text), 1)) ELSE 100,
         charactersTyped |-> Len(input),
         errorsCount |-> errors,
         correctionsCount |-> Len(SelectSeq(keystrokes, LAMBDA k : k.isCorrection))]

\* a variant without the case of the empty input
calculateStatsNoEmptyCase(input, text, elapsedSeconds, keystrokes) ==
    LET correctChars == CountPositions(input, text, TRUE)
        errors == CountPositions(input, text, FALSE)
    IN  [wpm |-> IF elapsedSeconds > 0
                 THEN Round(correctChars * 12, elapsedSeconds) ELSE 0,
         accuracy |-> Round(correctChars * 100, Max(Len(input), 1)),
         charactersTyped |-> Len(input),
         errorsCount |-> errors,
         correctionsCount |-> Len(SelectSeq(keystrokes, LAMBDA k : k.isCorrection))]

\* calculateStats(input, text); elapsedSeconds is 0 while startTime is null
calculateStats(input, text, elapsedSeconds, keystrokes) ==
    LET correctChars == CountPositions(input, text, TRUE)
        errors == CountPositions(input, text, FALSE)
    IN  [wpm |-> IF elapsedSeconds > 0
                 THEN Round(correctChars * 12, elapsedSeconds) ELSE 0,
         accuracy |-> IF Len(input) > 0
                      THEN Round(correctChars * 100, Len(input)) ELSE 100,
         charactersTyped |-> Len(input),
         errorsCount |-> errors,
         correctionsCount |-> Len(SelectSeq(keystrokes, LAMBDA k : k.isCorrection))]

\* a variant that adds 0.2 for each alert
FraudAnalysisPerAlert(t, config) ==
    LET ks == t.keystrokeData
        fast == IF Len(ks) > 1
                THEN SumSeq([i \in 1..(Len(ks) - 1) |-> ks[i + 1].timeBetweenKeystrokes])
                        < 50 * (Len(ks) - 1)
                ELSE TRUE
        focus == t.focusLostCount > 2
    IN  IF ~config.fraudDetectionEnabled
        THEN [fraudScore |-> 0, fraudIndicators |-> <<>>]
        ELSE [fraudScore |-> (IF fast THEN 30 ELSE 0) + (IF focus THEN 20 ELSE 0)
                               + 20 * Len(t.fraudAlerts),
              fraudIndicators |->
                  (IF fast THEN <<"Unusually fast typing detected">> ELSE <<>>)
                  \o (IF focus THEN <<"Multiple focus losses during test">> ELSE <<>>)
                  \o t.fraudAlerts]

\* the fraud score of handleTestComplete, in hundredths, and its indicators
FraudAnalysis(t, config) ==
    LET ks == t.keystrokeData
        fast == IF Len(ks) > 1
                THEN SumSeq([i \in 1..(Len(ks) - 1) |-> ks[i + 1].timeBetweenKeystrokes])
                        < 50 * (Len(ks) - 1)
                ELSE TRUE
        focus == t.focusLostCount > 2
        alerts == Len(t.fraudAlerts) > 0
    IN  IF ~config.fraudDetectionEnabled
        THEN [fraudScore |-> 0, fraudIndicators |-> <<>>]
        ELSE [fraudScore |-> (IF fast THEN 30 ELSE 0) + (IF focus THEN 20 ELSE 0)
                               + (IF alerts THEN 20 ELSE 0),
              fraudIndicators |->
                  (IF fast THEN <<"Unusually fast typing detected">> ELSE <<>>)
                  \o (IF focus THEN <<"Multiple focus losses during test">> ELSE <<>>)
                  \o (IF alerts THEN t.fraudAlerts ELSE <<>>)]

ElapsedSeconds(t, config) ==
    IF t.started THEN config.typingTestDuration - t.timeRemaining ELSE 0

\* a variant that still passes a fraud score of 0.7
TypingTestResultFraudInclusive(t, config) ==
    LET finalStats == calculateStats(t.userInput, t.currentText,
                                     ElapsedSeconds(t, config), t.keystrokeData)
        fraud == FraudAnalysis(t, config)
    IN  [wpm |-> finalStats.wpm,
         accuracy |-> finalStats.accuracy,
         charactersTyped |-> finalStats.charactersTyped,
         errorsMade |-> finalStats.errorsCount,
         correctionsMade |-> finalStats.correctionsCount,
         timeSpent |-> config.typingTestDuration - t.timeRemaining,
         passed |-> /\ finalStats.wpm >= config.minimumWpm
                    /\ finalStats.accuracy >= config.minimumAccuracy
                    /\ fraud.fraudScore <= 70,
         fraudScore |-> fraud.fraudScore,
         fraudIndicators |-> fraud.fraudIndicators]

\* the TypingTestResult handleTestComplete builds from the state t its
\* closure holds
TypingTestResult(t, config) ==
    LET finalStats == calculateStats(t.userInput, t.currentText,
                                     ElapsedSeconds(t, config), t.keystrokeData)
        fraud == FraudAnalysis(t, config)
    IN  [wpm |-> finalStats.wpm,
         accuracy |-> finalStats.accuracy,
         charactersTyped |-> finalStats.charactersTyped,
         errorsMade |-> finalStats.errorsCount,
         correctionsMade |-> finalStats.correctionsCount,
         timeSpent |-> config.typingTestDuration - t.timeRemaining,
         passed |-> /\ finalStats.wpm >= config.minimumWpm
                    /\ finalStats.accuracy >= config.minimumAccuracy
                    /\ fraud.fraudScore < 70,
         fraudScore |-> fraud.fraudScore,
         fraudIndicators |-> fraud.fraudIndicators]

\* the render React commits before the next event when a handler was run
\* by a DOM event
Rendered(t) == [t EXCEPT !.shown = t.testState]

\* handleTestComplete up to its await: the result is computed from the
\* state of the render the handler was created in (closure), typingPost is
\* the state its own setters leave
handleTestComplete(closure, typingPost) ==
    /\ typingTest' = [typingPost EXCEPT !.testState = "completed"]
    /\ continuations' = Append(continuations,
                               [of |-> "handleTestComplete",
                                results |-> TypingTestResult(closure, Val(jobConfig))])
    /\ UNCHANGED <<coordVars, storeVars, evaluated, cancelled, interview>>

\* handleTestComplete after its await (saveTypingTestResults only logs):
\* onComplete(results)
handleTestCompleteResume ==
    /\ continuations # <<>>
    /\ Head(continuations).of = "handleTestComplete"
    /\ continuations' = Tail(continuations)
    /\ handleTypingTestComplete(Head(continuations).results)
    /\ CommitRender(typingTest, interview)

\* the TypingTestResults that were built so far and are still held: those
\* not yet handed to onComplete and the one kept with the typing-test phase
FinalizedTypingResults ==
    {continuations[i].results :
        i \in {j \in 1..Len(continuations) :
                  continuations[j].of = "handleTestComplete"}}
    \cup {Val(testPhases[i].results) :
            i \in {j \in 1..Len(testPhases) :
                      testPhases[j].id = "typing-test" /\ testPhases[j].results # Null}}

\* the Start Typing Test button
startTest ==
    /\ typingTest.shown = "ready"
    /\ typingTest' = Rendered([typingTest EXCEPT !.testState = "active",
                                                 !.started = TRUE])
    /\ UNCHANGED <<coordVars, storeVars, evaluated, cancelled, continuations, interview>>

\* the inputs a change event of the textarea can carry: one more character,
\* or the last one deleted
NewInputs(input) ==
    {Append(input, c) : c \in Alphabet}
    \cup (IF input = <<>> THEN {} ELSE {SubSeq(input, 1, Len(input) - 1)})

handleInputChange(newInput, interval) ==
    /\ typingTest.shown = "active"
    /\ Val(jobConfig).fraudDetectionEnabled =>
           Len(typingTest.keystrokeData) < MaxKeystrokes
    /\ LET t == typingTest
           timeBetweenKeystrokes == IF Len(t.keystrokeData) > 0 THEN interval ELSE 0
           isCorrection == Len(newInput) < Len(t.userInput)
           suspicious == /\ timeBetweenKeystrokes < 10
                         /\ Len(newInput) > Len(t.userInput) + 5
           recorded ==
               IF Val(jobConfig).fraudDetectionEnabled
               THEN [t EXCEPT
                       !.fraudAlerts =
                           IF suspicious
                           THEN Append(@, "Suspicious rapid typing detected") ELSE @,
                       !.keystrokeData =
                           Append(@, [timeBetweenKeystrokes |-> timeBetweenKeystrokes,
                                      isCorrection |-> isCorrection])]
               ELSE t
           post == [recorded EXCEPT !.userInput = newInput]
       IN  IF Len(newInput) >= Len(t.currentText)
           THEN handleTestComplete(t, [post EXCEPT !.shown = "completed"])
           ELSE /\ typingTest' = Rendered(post)
                /\ UNCHANGED <<coordVars, storeVars, evaluated, cancelled, continuations, interview>>

\* the callback of the countdown timer
typingTick ==
    /\ typingTest.testState = "active"
    /\ typingTest.timeRemaining > 0
    /\ typingTest' = [typingTest EXCEPT !.timeRemaining = @ - 1]
    /\ UNCHANGED <<coordVars, storeVars, evaluated, cancelled, continuations, interview>>

\* the countdown effect at timeRemaining = 0; the render of what it sets is
\* left to the scheduler
typingTimeout ==
    /\ typingTest.testState = "active"
    /\ typingTest.timeRemaining = 0
    /\ handleTestComplete(typingTest, typingTest)

\* the Submit Early button
submitEarly ==
    /\ typingTest.shown = "active"
    /\ handleTestComplete(typingTest, [typingTest EXCEPT !.shown = "completed"])

\* window blur / visibilitychange while the test runs
handleFocusLoss ==
    /\ typingTest.shown = "active"
    /\ typingTest.focusLostCount < MaxFocusLoss
    /\ typingTest' =
          [typingTest EXCEPT
              !.focusLostCount = @ + 1,
              !.fraudAlerts = IF Val(jobConfig).fraudDetectionEnabled
                              THEN Append(@, "Browser focus lost during test")
                              ELSE @]
    /\ UNCHANGED <<coordVars, storeVars, evaluated, cancelled, continuations, interview>>

(***************************************************************************)
(* AIInterview.                                                            *)
(* Time: the countdown is in seconds; one questionTick stands for          *)
(* TickSeconds callbacks of the one-second timer with no other event in    *)
(* between.  A question is started with timeRemaining = timeLimit, so      *)
(* Date.now() - questionStartTime is timeLimit - timeRemaining seconds.    *)
(***************************************************************************)
\* getTimeLimit(category)
getTimeLimit(category) ==
    CASE category = "coding" -> 900
      [] category = "dsa" -> 600
      [] category = "education" -> 300
      [] category = "achievements" -> 420
      [] category = "problem_solving" -> 720
      [] OTHER -> 600

\* a variant that rounds down
QuestionCountFloor(percentage, totalQuestions) == (percentage * totalQuestions) \div 100

\* Math.round((percentage / 100) * config.totalQuestions)
QuestionCount(percentage, totalQuestions) == Round(percentage * totalQuestions, 100)

\* the questions of one category, in generation order
CategoryQuestions(category, count) ==
    [i \in 1..count |->
        [id |-> <<category, i - 1>>, category |-> category,
         timeLimit |-> getTimeLimit(category), maxScore |-> 100]]

RECURSIVE MockQuestions(_, _)
\* the mockQuestions array of generateInterviewQuestions before the shuffle
MockQuestions(config, categories) ==
    IF categories = <<>> THEN <<>>
    ELSE CategoryQuestions(Head(categories),
                           QuestionCount(config.questionDistribution[Head(categories)],
                                         config.totalInterviewQuestions))
         \o MockQuestions(config, Tail(categories))

\* the orders sort(() => Math.random() - 0.5) can leave the array in
Shuffles(s) ==
    {[i \in 1..Len(s) |-> s[p[i]]] :
        p \in {q \in [1..Len(s) -> 1..Len(s)] :
                  \A i, j \in 1..Len(s) : q[i] = q[j] => i = j}}

\* generateQuestions, run by the mount effect
generateQuestions ==
    /\ interview.interviewState = "loading"
    /\ \E generated \in Shuffles(MockQuestions(Val(jobConfig), ObjectKeys(Val(jobConfig).questionDistribution))) :
          interview' = [interview EXCEPT !.questions = generated,
                                         !.interviewState = "ready"]
    /\ UNCHANGED <<coordVars, storeVars, evaluated, cancelled, continuations, typingTest>>

\* questions[currentQuestionIndex], when there is one
HasCurrentQuestion(iv) == iv.currentQuestionIndex < Len(iv.questions)
CurrentQuestion(iv) == iv.questions[iv.currentQuestionIndex + 1]

\* the question card with its buttons is rendered
ShowsQuestion(iv) ==
    /\ iv.interviewState \in {"active", "completed"}
    /\ HasCurrentQuestion(iv)

\* startQuestion(index)
startQuestion(iv, index) ==
    [iv EXCEPT !.currentQuestionIndex = index,
               !.currentAnswer = EmptyText,
               !.timeRemaining = iv.questions[index + 1].timeLimit]

\* the Start Interview button; with no question startQuestion(0) throws
\* after its first setters and the remaining ones never run
startInterview ==
    /\ interview.interviewState = "ready"
    /\ interview' =
          IF Len(interview.questions) > 0
          THEN startQuestion([interview EXCEPT !.interviewState = "active"], 0)
          ELSE [interview EXCEPT !.interviewState = "active",
                                 !.currentQuestionIndex = 0,
                                 !.currentAnswer = EmptyText]
    /\ UNCHANGED <<coordVars, storeVars, evaluated, cancelled, continuations, typingTest>>

handleAnswerChange(text) ==
    /\ ShowsQuestion(interview)
    /\ ~interview.isSubmitting
    /\ text # interview.currentAnswer
    /\ interview' = [interview EXCEPT !.currentAnswer = text]
    /\ UNCHANGED <<coordVars, storeVars, evaluated, cancelled, continuations, typingTest>>

\* the score processAnswers gives one answer
AiScore(answer, question) ==
    LET baseScore == Min(90, Max(30, answer.answer.length \div 10))
        timeBonus == IF 2 * answer.timeSpent < question.timeLimit THEN 10 ELSE 0
    IN  Min(100, baseScore + timeBonus)

QuestionById(questions, id) ==
    questions[FindIndex(questions, "id", id)]

\* processAnswers(answers)
processAnswers(answers, questions) ==
    [i \in 1..Len(answers) |->
        LET question == QuestionById(questions, answers[i].questionId)
        IN  [questionId |-> answers[i].questionId,
             aiScore |-> AiScore(answers[i], question),
             timeManagement |-> IF answers[i].timeSpent < question.timeLimit
                                THEN 90 ELSE 60]]

\* a variant that passes only a score above the minimum
calculateResultsAbove(answers, processedResults, questions, config) ==
    LET scores == [i \in 1..Len(processedResults) |-> processedResults[i].aiScore]
        totalScore == SumSeq(scores)
        percentageScore == Round(totalScore, Len(processedResults))
        categoryScores(c) ==
            LET rs == SelectSeq(processedResults,
                             LAMBDA r : QuestionById(questions, r.questionId).category = c)
            IN  IF Len(rs) > 0
                THEN Round(SumSeq([i \in 1..Len(rs) |-> rs[i].aiScore]), Len(rs))
                ELSE 0
        totalTimeSpent == SumSeq([i \in 1..Len(answers) |-> answers[i].timeSpent])
        passed == percentageScore > config.minimumPassingScore
    IN  [totalScore |-> totalScore,
         percentageScore |-> percentageScore,
         questionsAttempted |-> Len(answers),
         questionsCompleted |-> Len(SelectSeq(answers, LAMBDA a : ~a.answer.blank)),
         categoryBreakdown |->
             [c \in {Categories[i] : i \in 1..Len(Categories)} |-> categoryScores(c)],
         timeAnalysis |->
             [totalTimeSpent |-> totalTimeSpent,
              averageTimePerQuestion |-> Round(totalTimeSpent, Len(answers)),
              questionsAutoSubmitted |-> Len(SelectSeq(answers, LAMBDA a : a.autoSubmitted))],
         passed |-> passed,
         evaluations |-> processedResults]

\* calculateResults(answers, processedResults)
calculateResults(answers, processedResults, questions, config) ==
    LET scores == [i \in 1..Len(processedResults) |-> processedResults[i].aiScore]
        totalScore == SumSeq(scores)
        percentageScore == Round(totalScore, Len(processedResults))
        categoryScores(c) ==
            LET rs == SelectSeq(processedResults,
                             LAMBDA r : QuestionById(questions, r.questionId).category = c)
            IN  IF Len(rs) > 0
                THEN Round(SumSeq([i \in 1..Len(rs) |-> rs[i].aiScore]), Len(rs))
                ELSE 0
        totalTimeSpent == SumSeq([i \in 1..Len(answers) |-> answers[i].timeSpent])
        passed == percentageScore >= config.minimumPassingScore
    IN  [totalScore |-> totalScore,
         percentageScore |-> percentageScore,
         questionsAttempted |-> Len(answers),
         questionsCompleted |-> Len(SelectSeq(answers, LAMBDA a : ~a.answer.blank)),
         categoryBreakdown |->
             [c \in {Categories[i] : i \in 1..Len(Categories)} |-> categoryScores(c)],
         timeAnalysis |->
             [totalTimeSpent |-> totalTimeSpent,
              averageTimePerQuestion |-> Round(totalTimeSpent, Len(answers)),
              questionsAutoSubmitted |-> Len(SelectSeq(answers, LAMBDA a : a.autoSubmitted))],
         passed |-> passed,
         evaluations |-> processedResults]

\* completeInterview(finalAnswers) up to its first await; the results are
\* those processAnswers and calculateResults will compute from finalAnswers
\* and the questions of the closure
completeInterview(finalAnswers, interviewPost) ==
    /\ completeInterviewCalls' = completeInterviewCalls + 1
    /\ interview' = [interviewPost EXCEPT !.interviewState = "completed"]
    /\ continuations' =
          Append(continuations,
                 [of |-> "completeInterview",
                  results |-> calculateResults(
                                  finalAnswers,
                                  processAnswers(finalAnswers, interview.questions),
                                  interview.questions, Val(jobConfig))])
    /\ UNCHANGED <<initialized, loading, jobConfig, candidateInfo, currentPhase,
                   testPhases, overallResults, switchTimer, toasts, storeVars, evaluated, cancelled,
                   typingTest>>

\* completeInterview after its awaits (saveInterviewResults only logs):
\* onComplete(results); the setIsSubmitting(false) that follows in
\* handleSubmitAnswer finds the AIInterview unmounted
completeInterviewResume(updateOk) ==
    /\ continuations # <<>>
    /\ Head(continuations).of = "completeInterview"
    /\ continuations' = Tail(continuations)
    /\ UNCHANGED completeInterviewCalls
    /\ handleInterviewComplete(Head(continuations).results, updateOk)
    /\ CommitRender(typingTest, interview)

\* a variant that stops one question early
HasNextQuestionOneShort(index, count) == index < count - 2

\* the submit moves on to a next question (currentQuestionIndex < length - 1)
HasNextQuestion(index, count) == index < count - 1

\* the common part of handleSubmitAnswer and handleAutoSubmit; submitting:
\* the value isSubmitting is left with when the handler suspends
SubmitAnswer(answer, submitting) ==
    LET appended == [interview EXCEPT !.answers = Append(@, answer)]
    IN  IF HasNextQuestion(interview.currentQuestionIndex, Len(interview.questions))
        THEN /\ interview' = startQuestion(appended, interview.currentQuestionIndex + 1)
             /\ UNCHANGED <<coordVars, storeVars, evaluated, cancelled, continuations, typingTest>>
        ELSE completeInterview(Append(interview.answers, answer),
                               [appended EXCEPT !.isSubmitting = submitting])

\* the Next Question / Complete Interview button
handleSubmitAnswer ==
    /\ ShowsQuestion(interview)
    /\ ~interview.isSubmitting
    /\ Len(interview.answers) < MaxAnswers
    /\ SubmitAnswer([questionId |-> CurrentQuestion(interview).id,
                     answer |-> interview.currentAnswer,
                     timeSpent |-> CurrentQuestion(interview).timeLimit
                                       - interview.timeRemaining,
                     autoSubmitted |-> FALSE],
                    TRUE)

\* the countdown effect at timeRemaining = 0; with no question
\* handleAutoSubmit throws before it changes anything
handleAutoSubmit ==
    /\ interview.interviewState = "active"
    /\ interview.timeRemaining = 0
    /\ HasCurrentQuestion(interview)
    /\ SubmitAnswer([questionId |-> CurrentQuestion(interview).id,
                     answer |-> interview.currentAnswer,
                     timeSpent |-> CurrentQuestion(interview).timeLimit,
                     autoSubmitted |-> TRUE],
                    interview.isSubmitting)

\* the setAnswers updater of handlePreviousQuestion
SaveTempAnswer(answers, tempAnswer) ==
    LET existing == FindIndex(answers, "questionId", tempAnswer.questionId)
    IN  IF existing > 0
        THEN [answers EXCEPT ![existing] = tempAnswer]
        ELSE Append(answers, tempAnswer)

\* the Previous button
handlePreviousQuestion ==
    /\ ShowsQuestion(interview)
    /\ ~interview.isSubmitting
    /\ interview.currentQuestionIndex > 0
    /\ LET iv == interview
           tempAnswer == [questionId |-> CurrentQuestion(iv).id,
                          answer |-> iv.currentAnswer,
                          timeSpent |-> CurrentQuestion(iv).timeLimit - iv.timeRemaining,
                          autoSubmitted |-> FALSE]
           saved == SaveTempAnswer(iv.answers, tempAnswer)
           started == startQuestion([iv EXCEPT !.answers = saved],
                                    iv.currentQuestionIndex - 1)
           prevAnswer == FindIndex(iv.answers, "questionId",
                                   iv.questions[iv.currentQuestionIndex].id)
       IN  /\ Len(saved) <= MaxAnswers
           /\ interview' = IF prevAnswer > 0
                           THEN [started EXCEPT !.currentAnswer = iv.answers[prevAnswer].answer]
                           ELSE started
    /\ UNCHANGED <<coordVars, storeVars, evaluated, cancelled, continuations, typingTest>>

\* the callback of the question countdown
questionTick ==
    /\ interview.interviewState = "active"
    /\ interview.timeRemaining > 0
    /\ interview' = [interview EXCEPT !.timeRemaining = @ - Min(TickSeconds, @)]
    /\ UNCHANGED <<coordVars, storeVars, evaluated, cancelled, continuations, typingTest>>

\* onCancel of AIInterview (the End Interview button of the question card)
interviewCancel ==
    /\ ShowsQuestion(interview)
    /\ ~interview.isSubmitting
    /\ currentPhase' = "overview"
    /\ cancelled' = Some("ai-interview")
    /\ UNCHANGED <<initialized, loading, jobConfig, candidateInfo, testPhases,
                   overallResults, switchTimer, completeInterviewCalls, toasts,
                   storeVars, evaluated, continuations>>
    /\ CommitRender(typingTest, interview)

(***************************************************************************)
(* The session.                                                            *)
(***************************************************************************)
(***************************************************************************)
(* useTestingSystem.saveInterviewResults and the interview endpoint of the *)
(* testing-handler edge function it posts to.  The interview data are      *)
(* the questions of the job's configuration and the evaluations and        *)
(* results of the interview that completed last; of a question row the     *)
(* columns taken from the question and from its evaluation are kept.       *)
(***************************************************************************)
InterviewData ==
    [questions |-> MockQuestions(Val(jobConfig), ObjectKeys(Val(jobConfig).questionDistribution)),
     evaluations |-> Val(overallResults).interviewResults.evaluations,
     results |-> Val(overallResults).interviewResults]

\* the row handleInterview inserts for questions[index]; x || null is null
\* for 0
InterviewQuestionRow(data, index) ==
    LET question == data.questions[index + 1]
        e == FindIndex(data.evaluations, "questionId", question.id)
    IN  [question_order |-> index,
         question_category |-> question.category,
         time_limit |-> question.timeLimit,
         ai_score |-> IF e = 0 \/ data.evaluations[e].aiScore = 0
                      THEN Null ELSE Some(data.evaluations[e].aiScore)]

\* the row handleInterview inserts into interview_results
InterviewResultRow(results) ==
    [total_score |-> results.totalScore,
     percentage_score |-> results.percentageScore,
     questions_attempted |-> results.questionsAttempted,
     questions_completed |-> results.questionsCompleted,
     passed |-> results.passed]

\* the update of the application row that handleInterview requests
EdgeInterviewStatusUpdate(results) ==
    [status |-> Some(IF results.passed THEN "Passed Interview" ELSE "Failed Interview"),
     pipeline_stage |-> Some(IF results.passed THEN "Technical Assessment"
                             ELSE "Rejected"),
     ai_score |-> Some(Some(results.percentageScore))]

\* handleInterview(req, supabase) for a POST request of an authorized user.
\* inserted: the questions whose insert the store accepted (a rejected
\* insert resolves with an error that is not read); resultOk, updateOk: the
\* store accepted the result row, the application update
handleInterview(data, inserted, resultOk, updateOk) ==
    /\ tables' =
          [tables EXCEPT
              !.interview_questions =
                  @ \o [i \in 1..Len(inserted) |-> InterviewQuestionRow(data, inserted[i])],
              !.interview_results =
                  IF resultOk THEN Append(@, InterviewResultRow(data.results)) ELSE @]
    /\ IF resultOk
       THEN LET update == EdgeInterviewStatusUpdate(data.results)
            IN  /\ issuedUpdates' = issuedUpdates \cup
                       {[by |-> "handleInterview", update |-> update,
                         passed |-> data.results.passed,
                         percentageScore |-> data.results.percentageScore]}
                /\ applicationData' = IF updateOk
                                      THEN ApplyUpdate(applicationData, update)
                                      ELSE applicationData
       ELSE UNCHANGED <<issuedUpdates, applicationData>>

\* the question indexes, in order, of the inserts the store accepts: none
\* or all
InsertedQuestions(data) ==
    {<<>>, [i \in 1..Len(data.questions) |-> i - 1]}

\* setLoading(true); setError(null): what each operation of the hook does
\* before its first await
HookStarted(h) == [h EXCEPT !.loading = TRUE, !.error = Null]

\* saveInterviewResults(data) from its first await on, h being the state of
\* the hook when the response arrives.  reached: the request reached
\* handleInterview (otherwise fetch throws or the response is 401).  The
\* response is ok when the result row was inserted.
saveInterviewResultsResume(h, data, reached, resultOk, updateOk) ==
    /\ IF reached
       THEN \E inserted \in InsertedQuestions(data) :
               handleInterview(data, inserted, resultOk, updateOk)
       ELSE UNCHANGED <<tables, issuedUpdates, applicationData>>
    /\ hook' = IF reached /\ resultOk
               THEN [h EXCEPT
                       !.loading = FALSE,
                       !.interviewResults =
                           Some(tables'.interview_results[Len(tables'.interview_results)])]
               ELSE [h EXCEPT !.loading = FALSE,
                              !.error = Some("Failed to save interview results")]

\* saveInterviewResults(data).  reached: the request reached handleInterview
\* (otherwise fetch throws or the response is 401).  The response is ok when
\* the result row was inserted.  The save is requested when the assessment
\* has come to its final overview with no phase switch outstanding, and
\* nothing is saved twice into the tables.
saveInterviewResults(reached, resultOk, updateOk) ==
    /\ overallResults # Null
    /\ currentPhase = "overview" /\ switchTimer = 0
    /\ Settled
    /\ tables.interview_questions = <<>>
    /\ tables.interview_results = <<>>
    /\ saveInterviewResultsResume(HookStarted(hook), InterviewData,
                                  reached, resultOk, updateOk)
    /\ UNCHANGED <<jobData, continuations, evaluated, cancelled, coordVars, typingTest, interview>>

Next ==
    \/ \E jobError, appError \in BOOLEAN : initializeTest(jobError, appError)
    \/ startNextPhase
    \/ phaseSwitchTimeout
    \/ typingCancel
    \/ startTest
    \/ \E newInput \in NewInputs(typingTest.userInput), interval \in KeystrokeIntervals :
          handleInputChange(newInput, interval)
    \/ typingTick
    \/ typingTimeout
    \/ submitEarly
    \/ handleFocusLoss
    \/ generateQuestions
    \/ startInterview
    \/ \E text \in AnswerTexts : handleAnswerChange(text)
    \/ handleSubmitAnswer
    \/ handleAutoSubmit
    \/ \E updateOk \in BOOLEAN : completeInterviewResume(updateOk)
    \/ handleTestCompleteResume
    \/ handlePreviousQuestion
    \/ questionTick
    \/ interviewCancel
    \/ \E reached, resultOk, updateOk \in BOOLEAN :
          saveInterviewResults(reached, resultOk, updateOk)

Spec == Init /\ [][Next]_vars

\* the scheduling the interview's progress rests on: the 1000 ms timeout of
\* the countdown effect fires, the effect runs handleAutoSubmit when it finds
\* timeRemaining 0, and the promises completeInterview awaits settle
TimerSpec ==
    /\ Spec
    /\ WF_vars(questionTick)
    /\ WF_vars(handleAutoSubmit)
    /\ WF_vars(\E updateOk \in BOOLEAN : completeInterviewResume(updateOk))

(***************************************************************************)
(* The functions of the components, evaluated on their own: calculateStats *)
(* on every short input and text, generateInterviewQuestions on every      *)
(* configuration of a few question totals and distributions, and           *)
(* processAnswers with calculateResults on every short list of answers.    *)
(* One function is evaluated in a behaviour.                               *)
(***************************************************************************)
\* the strings over the alphabet of at most n characters
Strings(n) == UNION {[1..k -> Alphabet] : k \in 0..n}

\* a paragraph of 300 characters, typed in one minute
LongParagraph == [i \in 1..300 |-> IF i % 2 = 1 THEN "a" ELSE "b"]

\* seconds between startTest and the evaluation; 0: startTime is null
ElapsedTimes == {0, 1, 7, 60}

\* the arguments calculateStats is evaluated on: the inputs of up to one
\* character more than the longest text, and the long paragraph typed as it
\* stands
StatsArguments ==
    (Strings(TextLen + 1) \X Strings(TextLen) \X ElapsedTimes)
    \cup {<<LongParagraph, LongParagraph, 60>>}

calculateStatsCall ==
    /\ evaluated = Null
    /\ \E args \in StatsArguments :
          evaluated' = Some([fn |-> "calculateStats",
                             input |-> args[1], text |-> args[2],
                             elapsedSeconds |-> args[3],
                             result |-> calculateStats(args[1], args[2], args[3], <<>>)])
    /\ UNCHANGED <<coordVars, storeVars, continuations, typingTest, interview,
                   cancelled>>

\* a distribution whose counts round up to more than the total
UnevenDistribution ==
    [coding |-> 30, dsa |-> 30, education |-> 20, achievements |-> 10,
     problem_solving |-> 10]

QuestionDistributions == {DefaultDistribution, CodingOnlyDistribution, UnevenDistribution}

\* total_interview_questions of the jobs: the small totals and a usual one
QuestionTotals == (0..(MaxTotalQuestions + 3)) \cup {20}

\* the configuration initializeTest makes of a job with these settings
InterviewConfig(total, distribution, passing) ==
    MakeJobConfig(JobRow(CHOOSE t \in TypingSettings : ~t.fraud_detection_enabled,
                         FALSE, total, Some(distribution),
                         CHOOSE a \in AtsMinimumScores : TRUE, passing))

generateInterviewQuestionsCall ==
    /\ evaluated = Null
    /\ \E total \in QuestionTotals, distribution \in QuestionDistributions,
          passing \in MinimumPassingScores :
          LET config == InterviewConfig(total, distribution, passing)
          IN  evaluated' = Some([fn |-> "generateInterviewQuestions",
                                 config |-> config,
                                 result |-> MockQuestions(config, ObjectKeys(config.questionDistribution))])
    /\ UNCHANGED <<coordVars, storeVars, continuations, typingTest, interview,
                   cancelled>>

\* answer texts of 0, 600, 650 and 800 characters
ScoredTexts ==
    {EmptyText} \cup {[length |-> n, blank |-> FALSE] : n \in {600, 650, 800}}

\* the Answer records the interview can hold for these questions: submitted
\* at once or by the timeout
AnswersTo(questions) ==
    {[questionId |-> questions[i].id, answer |-> text,
      timeSpent |-> IF auto THEN questions[i].timeLimit ELSE 0,
      autoSubmitted |-> auto] :
        i \in 1..Len(questions), text \in ScoredTexts, auto \in BOOLEAN}

calculateResultsCall ==
    /\ evaluated = Null
    /\ \E passing \in MinimumPassingScores :
          LET config == InterviewConfig(MaxTotalQuestions, DefaultDistribution, passing)
              questions == MockQuestions(config, ObjectKeys(config.questionDistribution))
          IN  \E n \in 1..MaxTotalQuestions :
                \E answers \in [1..n -> AnswersTo(questions)] :
                    evaluated' =
                        Some([fn |-> "calculateResults",
                              config |-> config,
                              answers |-> answers,
                              result |-> calculateResults(
                                             answers,
                                             processAnswers(answers, questions),
                                             questions, config)])
    /\ UNCHANGED <<coordVars, storeVars, continuations, typingTest, interview,
                   cancelled>>

(***************************************************************************)
(* useTestingSystem.saveTypingTestResults and the typing-test endpoint of  *)
(* the testing-handler edge function.  A column of an inserted row holds   *)
(* Some(value), or Null when the property read for it is undefined.        *)
(***************************************************************************)
\* obj.name: Null stands for undefined
Field(obj, name) == IF name \in DOMAIN obj THEN Some(obj[name]) ELSE Null

\* the row handleTypingTest inserts into typing_test_results
EdgeTypingRow(typing_result) ==
    [wpm |-> Field(typing_result, "wpm"),
     accuracy |-> Field(typing_result, "accuracy"),
     characters_typed |-> Field(typing_result, "charactersTyped"),
     errors_made |-> Field(typing_result, "errorsMade"),
     corrections_made |-> Field(typing_result, "correctionsMade"),
     time_spent |-> Field(typing_result, "timeSpent"),
     test_duration |-> Field(typing_result, "testDuration"),
     paragraph_used |-> Field(typing_result, "paragraphUsed"),
     minimum_wpm_required |-> Field(typing_result, "minimumWpmRequired"),
     minimum_accuracy_required |-> Field(typing_result, "minimumAccuracyRequired"),
     keystroke_data |-> Field(typing_result, "keystrokeData"),
     fraud_score |-> Field(typing_result, "fraudScore"),
     fraud_indicators |-> Field(typing_result, "fraudIndicators"),
     suspicious_patterns |-> Field(typing_result, "suspiciousPatterns"),
     passed |-> Field(typing_result, "passed"),
     auto_submitted |-> Field(typing_result, "autoSubmitted"),
     user_agent |-> Field(typing_result, "userAgent"),
     browser_focus_lost_count |-> Field(typing_result, "browserFocusLostCount")]

\* the row the fallback of saveTypingTestResults inserts
DirectTypingRow(results) ==
    [wpm |-> Field(results, "wpm"),
     accuracy |-> Field(results, "accuracy"),
     characters_typed |-> Field(results, "charactersTyped"),
     errors_made |-> Field(results, "errorsMade"),
     corrections_made |-> Field(results, "correctionsCount"),
     time_spent |-> Field(results, "timeSpent"),
     test_duration |-> Field(results, "testDuration"),
     paragraph_used |-> Field(results, "paragraphUsed"),
     minimum_wpm_required |-> Field(results, "minimumWpm"),
     minimum_accuracy_required |-> Field(results, "minimumAccuracy"),
     keystroke_data |-> Field(results, "keystrokeData"),
     fraud_score |-> Field(results, "fraudScore"),
     fraud_indicators |-> Field(results, "fraudIndicators"),
     suspicious_patterns |-> Field(results, "suspiciousPatterns"),
     passed |-> Field(results, "passed"),
     auto_submitted |-> Field(results, "autoSubmitted"),
     user_agent |-> Some("navigator.userAgent"),
     browser_focus_lost_count |-> Field(results, "focusLostCount")]

\* the update of the application row for a failed typing test
TypingStatusUpdate(status) ==
    [status |-> Some(status), pipeline_stage |-> Null, ai_score |-> Null]

\* the update of the application row that handleTypingTest requests after
\* its insert: none for a passed result
handleTypingTestStatusUpdate(results) ==
    IF ~results.passed THEN Some(TypingStatusUpdate("Failed Typing Test")) ELSE Null

\* the update that the fallback of saveTypingTestResults requests after its
\* insert: none for a passed result
FallbackStatusUpdate(results) ==
    IF ~results.passed THEN Some(TypingStatusUpdate("Rejected")) ELSE Null

\* the responses of the fetch of saveTypingTestResults: the request fails,
\* handleTypingTest inserted the row, or the response is not OK (the insert
\* of handleTypingTest was rejected, or the request did not reach it)
FetchOutcomes == {"throws", "ok", "not ok"}

\* saveTypingTestResults(results) from its first await on, h being the
\* state of the hook when the response arrives.  insertOk: the store accepts
\* the insert of the fallback; updateOk: it applies the update of the
\* application row; selectOk: the refresh returns the rows
saveTypingTestResultsResume(h, results, response, insertOk, updateOk, selectOk) ==
    LET row == IF response = "ok" THEN Some(EdgeTypingRow(results))
               ELSE IF response = "not ok" /\ insertOk
                    THEN Some(DirectTypingRow(results))
                    ELSE Null
        update == Val(IF response = "ok" THEN handleTypingTestStatusUpdate(results)
                      ELSE FallbackStatusUpdate(results))
    IN  /\ tables' = [tables EXCEPT !.typing_test_results =
                         IF row = Null THEN @ ELSE Append(@, Val(row))]
        /\ IF row # Null /\ ~results.passed
           THEN /\ issuedUpdates' = issuedUpdates \cup
                      {[by |-> IF response = "ok" THEN "handleTypingTest"
                               ELSE "saveTypingTestResults",
                        update |-> update, passed |-> FALSE]}
                /\ applicationData' = IF updateOk
                                      THEN ApplyUpdate(applicationData, update)
                                      ELSE applicationData
           ELSE UNCHANGED <<issuedUpdates, applicationData>>
        /\ hook' = IF row = Null
                   THEN [h EXCEPT
                           !.loading = FALSE,
                           !.error = Some("Failed to save typing test results")]
                   ELSE [h EXCEPT
                           !.loading = FALSE,
                           !.typingResults =
                               IF selectOk /\ tables'.typing_test_results # <<>>
                               THEN Some(tables'.typing_test_results[
                                             Len(tables'.typing_test_results)])
                               ELSE Null]

\* saveTypingTestResults(results), the response arriving before anything
\* else happens
saveTypingTestResults(results, response, insertOk, updateOk, selectOk) ==
    saveTypingTestResultsResume(HookStarted(hook), results, response,
                                insertOk, updateOk, selectOk)

\* the keystrokes recorded while input is typed character by character,
\* after a first character that was typed and deleted when corrected
KeystrokesFor(input, corrected) ==
    (IF corrected
     THEN <<[timeBetweenKeystrokes |-> 0, isCorrection |-> FALSE],
            [timeBetweenKeystrokes |-> 100, isCorrection |-> TRUE]>>
     ELSE <<>>)
    \o [i \in 1..Len(input) |->
           [timeBetweenKeystrokes |-> IF i = 1 /\ ~corrected THEN 0 ELSE 100,
            isCorrection |-> FALSE]]

\* the states of a TypingTest at the end of a test
FinishedTypingTests(config) ==
    {[TypingMounted(config, text) EXCEPT
         !.testState = "active", !.shown = "active", !.started = TRUE,
         !.userInput = input, !.timeRemaining = remaining,
         !.keystrokeData = IF config.fraudDetectionEnabled
                           THEN KeystrokesFor(input, corrected) ELSE <<>>] :
        text \in TEST_PARAGRAPHS, input \in Strings(TextLen),
        remaining \in {0, config.typingTestDuration - 1},
        corrected \in BOOLEAN}

saveTypingTestResultsCall ==
    /\ evaluated = Null
    /\ jobData.typing_test_enabled
    /\ \E t \in FinishedTypingTests(MakeJobConfig(jobData)),
          response \in FetchOutcomes, insertOk, updateOk, selectOk \in BOOLEAN :
          LET results == TypingTestResult(t, MakeJobConfig(jobData))
          IN  /\ saveTypingTestResults(results, response, insertOk, updateOk, selectOk)
              /\ evaluated' = Some([fn |-> "saveTypingTestResults",
                                    results |-> results, response |-> response,
                                    result |-> hook'.error = Null])
    /\ UNCHANGED <<jobData, coordVars, continuations, typingTest, interview,
                   cancelled>>

(***************************************************************************)
(* useTestingSystem.fetchTestConfig and the job-config endpoint of the     *)
(* edge function.                                                          *)
(***************************************************************************)
\* data?.[0] || null of a select ordered by created_at descending, limit 1
LatestRow(rows) == IF rows = <<>> THEN Null ELSE Some(rows[Len(rows)])

\* the response body of handleJobConfig: of the application row the
\* endpoint selects ai_score (and the candidate)
JobConfigResponse ==
    [job_config |-> Some(jobData),
     application |-> Some([ai_score |-> applicationData.ai_score]),
     typing_results |-> LatestRow(tables.typing_test_results),
     interview_results |-> LatestRow(tables.interview_results)]

\* fetchTestConfig() from its first await on, h being the state of the hook
\* when the response arrives.  response: the fetch of the edge function
\* fails, is answered OK or is answered not OK; jobOk, appOk: the direct
\* reads of the job row and of the application row succeed
fetchTestConfigResume(h, response, jobOk, appOk) ==
    /\ hook' =
          IF response = "ok"
          THEN [h EXCEPT !.loading = FALSE,
                         !.jobConfig = JobConfigResponse.job_config,
                         !.applicationData = JobConfigResponse.application,
                         !.typingResults = JobConfigResponse.typing_results,
                         !.interviewResults = JobConfigResponse.interview_results]
          ELSE IF response = "not ok" /\ jobOk /\ appOk
          THEN [h EXCEPT !.loading = FALSE,
                         !.jobConfig = Some(jobData),
                         !.applicationData = Some(applicationData),
                         !.typingResults = LatestRow(tables.typing_test_results),
                         !.interviewResults = LatestRow(tables.interview_results)]
          ELSE [h EXCEPT !.loading = FALSE,
                         !.error = Some("Failed to load test configuration")]
    /\ UNCHANGED <<jobData, applicationData, issuedUpdates, tables>>

\* fetchTestConfig(), the response arriving before anything else happens
fetchTestConfig(response, jobOk, appOk) ==
    fetchTestConfigResume(HookStarted(hook), response, jobOk, appOk)

fetchTestConfigCall ==
    /\ evaluated = Null
    /\ \E response \in FetchOutcomes, jobOk, appOk \in BOOLEAN :
          /\ fetchTestConfig(response, jobOk, appOk)
          /\ evaluated' = Some([fn |-> "fetchTestConfig", response |-> response,
                                jobOk |-> jobOk, appOk |-> appOk])
    /\ UNCHANGED <<coordVars, continuations, typingTest, interview, cancelled>>

(***************************************************************************)
(* MyExams.getApplicationStatus.  An ExamApplication carries the score of  *)
(* the application, the job's typing_test_enabled and ats_minimum_score,   *)
(* and the embedded typing_test_results and interview_results rows in the  *)
(* order the select returned them (it names no order); Null stands for an  *)
(* array that is undefined.                                                *)
(***************************************************************************)
\* the sequences of at most n result rows, of distinct created_at
ResultRows(n) ==
    UNION {{rows \in [1..k -> [passed : BOOLEAN, created_at : 1..n]] :
               \A i, j \in 1..k : rows[i].created_at = rows[j].created_at => i = j} :
           k \in 0..n}

ExamApplications ==
    [ai_score : AiScores,
     job : [typing_test_enabled : BOOLEAN, ats_minimum_score : AtsMinimumScores],
     typing_test_results : {Null} \cup {Some(rows) : rows \in ResultRows(MaxResults)},
     interview_results : {Null} \cup {Some(rows) : rows \in ResultRows(1)}]

\* array?.[0]: Null stands for undefined
FirstRow(array) ==
    IF array = Null \/ Val(array) = <<>> THEN Null ELSE Some(Val(array)[1])

\* application.ai_score < application.job.ats_minimum_score (null is 0)
AtsBelowMinimum(application) ==
    (IF application.ai_score = Null THEN 0 ELSE Val(application.ai_score))
        < application.job.ats_minimum_score

getApplicationStatus(application) ==
    LET hasTypingTest == application.job.typing_test_enabled
        typingResult == FirstRow(application.typing_test_results)
        interviewResult == FirstRow(application.interview_results)
    IN  IF AtsBelowMinimum(application)
        THEN [status |-> "Not Qualified", canTakeExam |-> FALSE]
        ELSE IF hasTypingTest /\ typingResult = Null
        THEN [status |-> "Typing Test Pending", canTakeExam |-> TRUE]
        ELSE IF hasTypingTest /\ ~Val(typingResult).passed
        THEN [status |-> "Typing Test Failed", canTakeExam |-> FALSE]
        ELSE IF interviewResult = Null
        THEN [status |-> "Interview Pending", canTakeExam |-> TRUE]
        ELSE IF ~Val(interviewResult).passed
        THEN [status |-> "Interview Failed", canTakeExam |-> FALSE]
        ELSE [status |-> "Completed", canTakeExam |-> FALSE]

getApplicationStatusCall ==
    /\ evaluated = Null
    /\ \E application \in ExamApplications :
          evaluated' = Some([fn |-> "getApplicationStatus",
                             application |-> application,
                             result |-> getApplicationStatus(application)])
    /\ UNCHANGED <<coordVars, storeVars, continuations, typingTest, interview,
                   cancelled>>

(***************************************************************************)
(* ApplicantTest, the page that renders the TestCoordinator.  The page is  *)
(* kept in evaluated: its state (loading, authorized), the await its      *)
(* checkAuthorization is suspended at (pc), what the reads returned, and  *)
(* the path it navigated to.                                              *)
(***************************************************************************)
UserIds == {"u1", "u2"}

\* the state of the page after its first render
ApplicantTestMounted ==
    [fn |-> "ApplicantTest", pc |-> "effect", loading |-> TRUE,
     authorized |-> FALSE, user |-> Null, data |-> Null, hrCheck |-> Null,
     threw |-> FALSE, navigated |-> Null, shown |-> {}]

\* a variant that takes any user for the candidate
NotTheCandidateNever(data, user) == FALSE

\* data.candidates?.user_profile_id !== user.id
NotTheCandidate(data, user) == data.candidates.user_profile_id # user.id

\* what the page renders: the spinner, the Access Denied card or the
\* TestCoordinator
PageRenders(page) ==
    IF page.loading THEN "loading"
    ELSE IF ~page.authorized THEN "access-denied"
    ELSE "TestCoordinator"

\* the catch and the finally of checkAuthorization
checkAuthorizationThrew(page) ==
    [page EXCEPT !.pc = "done", !.threw = TRUE, !.loading = FALSE,
                 !.shown = @ \cup {"Error"}]

\* the page is mounted
applicantTestMount ==
    /\ evaluated = Null
    /\ evaluated' = Some(ApplicantTestMounted)
    /\ UNCHANGED <<coordVars, storeVars, continuations, typingTest, interview,
                   cancelled>>

\* the effect: with a parameter missing it navigates home, otherwise it
\* calls checkAuthorization, which runs to supabase.auth.getUser()
applicantTestEffect(hasParameters) ==
    /\ evaluated # Null
    /\ Val(evaluated).fn = "ApplicantTest"
    /\ Val(evaluated).pc = "effect"
    /\ evaluated' =
          Some(IF hasParameters
               THEN [Val(evaluated) EXCEPT !.pc = "getUser"]
               ELSE [Val(evaluated) EXCEPT !.pc = "done",
                                           !.shown = @ \cup {"Missing Parameters"},
                                           !.navigated = Some("/")])
    /\ UNCHANGED <<coordVars, storeVars, continuations, typingTest, interview,
                   cancelled>>

\* getUser is settled: it threw, or returned user (Null: no user) and userError
checkAuthorizationUser(threw, user, userError) ==
    /\ evaluated # Null
    /\ Val(evaluated).fn = "ApplicantTest"
    /\ Val(evaluated).pc = "getUser"
    /\ LET page == Val(evaluated)
       IN  evaluated' =
              Some(IF threw THEN checkAuthorizationThrew(page)
                   ELSE IF userError \/ user = Null
                   THEN [page EXCEPT !.pc = "done", !.loading = FALSE,
                                     !.shown = @ \cup {"Authentication Required"},
                                     !.navigated = Some("/login")]
                   ELSE [page EXCEPT !.pc = "application", !.user = user])
    /\ UNCHANGED <<coordVars, storeVars, continuations, typingTest, interview,
                   cancelled>>

\* applications row joined with its candidate and the job of jobId
ApplicationLookups ==
    [candidates : [user_profile_id : UserIds], jobs : [company_id : {"c1"}]]

\* the read of the application is settled; data is Null when no row matches
\* the application and the job.  For the candidate the function ends here.
checkAuthorizationApplication(threw, data, error) ==
    /\ evaluated # Null
    /\ Val(evaluated).fn = "ApplicantTest"
    /\ Val(evaluated).pc = "application"
    /\ LET page == Val(evaluated)
       IN  evaluated' =
              Some(IF threw THEN checkAuthorizationThrew(page)
                   ELSE IF error \/ data = Null
                   THEN [page EXCEPT !.pc = "done", !.loading = FALSE,
                                     !.authorized = FALSE,
                                     !.shown = @ \cup {"Access Denied"},
                                     !.navigated = Some("/")]
                   ELSE IF NotTheCandidate(Val(data), Val(page.user))
                   THEN [page EXCEPT !.pc = "hr_members", !.data = data]
                   ELSE [page EXCEPT !.pc = "done", !.data = data,
                                     !.authorized = TRUE, !.loading = FALSE])
    /\ UNCHANGED <<coordVars, storeVars, continuations, typingTest, interview,
                   cancelled>>

\* the read of hr_members is settled; hrCheck is Null when the user is no
\* HR member of the job's company
checkAuthorizationHr(threw, hrCheck, hrError) ==
    /\ evaluated # Null
    /\ Val(evaluated).fn = "ApplicantTest"
    /\ Val(evaluated).pc = "hr_members"
    /\ LET page == Val(evaluated)
       IN  evaluated' =
              Some(IF threw THEN checkAuthorizationThrew(page)
                   ELSE IF hrError \/ hrCheck = Null
                   THEN [page EXCEPT !.pc = "done", !.loading = FALSE,
                                     !.authorized = FALSE,
                                     !.shown = @ \cup {"Access Denied"},
                                     !.navigated = Some("/")]
                   ELSE [page EXCEPT !.pc = "done", !.hrCheck = hrCheck,
                                     !.authorized = TRUE, !.loading = FALSE])
    /\ UNCHANGED <<coordVars, storeVars, continuations, typingTest, interview,
                   cancelled>>

FunctionsNext ==
    \/ calculateStatsCall
    \/ generateInterviewQuestionsCall
    \/ calculateResultsCall
    \/ saveTypingTestResultsCall
    \/ fetchTestConfigCall
    \/ getApplicationStatusCall
    \/ applicantTestMount
    \/ \E hasParameters \in BOOLEAN : applicantTestEffect(hasParameters)
    \/ \E threw, userError \in BOOLEAN,
          user \in {Null} \cup {Some([id |-> u]) : u \in UserIds} :
          checkAuthorizationUser(threw, user, userError)
    \/ \E threw, error \in BOOLEAN,
          data \in {Null} \cup {Some(d) : d \in ApplicationLookups} :
          checkAuthorizationApplication(threw, data, error)
    \/ \E threw, hrError \in BOOLEAN, hrCheck \in {Null, Some([id |-> "hr1"])} :
          checkAuthorizationHr(threw, hrCheck, hrError)

FunctionsSpec == Init /\ [][FunctionsNext]_vars

(***************************************************************************)
(* useTestingSystem with its operations overlapping.  An operation that    *)
(* was called is suspended at its first await, among the continuations,    *)
(* until its response arrives; the responses arrive in any order.          *)
(***************************************************************************)
\* the operations that are in flight or have saved a row
MaxHookCalls == 2

\* the results of the typing tests that ran to their timeout with nothing
\* typed or with the paragraph typed without a correction
HookTypingResults(config) ==
    {TypingTestResult(t, config) :
        t \in {u \in FinishedTypingTests(config) :
                  /\ u.timeRemaining = 0
                  /\ u.userInput \in {<<>>, u.currentText}
                  /\ \A k \in 1..Len(u.keystrokeData) :
                         ~u.keystrokeData[k].isCorrection}}

\* the data of the interviews in which every question ran to its timeout
\* with the same answer
HookInterviewData(config) ==
    LET questions == MockQuestions(config, ObjectKeys(config.questionDistribution))
        data(text) ==
            LET answers == [i \in 1..Len(questions) |->
                               [questionId |-> questions[i].id, answer |-> text,
                                timeSpent |-> questions[i].timeLimit,
                                autoSubmitted |-> TRUE]]
                processed == processAnswers(answers, questions)
            IN  [questions |-> questions,
                 evaluations |-> processed,
                 results |-> calculateResults(answers, processed, questions, config)]
    IN  IF questions = <<>> THEN {}
        ELSE {data(text) : text \in {EmptyText, [length |-> 800, blank |-> FALSE]}}

HookCanStart ==
    Len(continuations) + Len(tables.typing_test_results)
        + Len(tables.interview_questions) + Len(tables.interview_results)
            < MaxHookCalls

\* an operation of the hook up to its first await
HookBegin(operation) ==
    /\ hook' = HookStarted(hook)
    /\ continuations' = Append(continuations, operation)
    /\ UNCHANGED <<jobData, applicationData, issuedUpdates, tables, coordVars,
                   typingTest, interview, evaluated, cancelled>>

\* the response of the operation suspended at position i arrives
HookEnd(i, name) ==
    /\ i \in 1..Len(continuations)
    /\ continuations[i].of = name
    /\ continuations' = [j \in 1..(Len(continuations) - 1) |->
                            IF j < i THEN continuations[j] ELSE continuations[j + 1]]
    /\ UNCHANGED <<coordVars, typingTest, interview, evaluated, cancelled>>

fetchTestConfigBegin ==
    /\ HookCanStart
    /\ HookBegin([of |-> "fetchTestConfig"])

fetchTestConfigEnd(i, response, jobOk, appOk) ==
    /\ HookEnd(i, "fetchTestConfig")
    /\ fetchTestConfigResume(hook, response, jobOk, appOk)

saveTypingTestResultsBegin(results) ==
    /\ HookCanStart
    /\ jobData.typing_test_enabled
    /\ HookBegin([of |-> "saveTypingTestResults", results |-> results])

saveTypingTestResultsEnd(i, response, insertOk, updateOk, selectOk) ==
    /\ HookEnd(i, "saveTypingTestResults")
    /\ saveTypingTestResultsResume(hook, continuations[i].results, response,
                                   insertOk, updateOk, selectOk)
    /\ UNCHANGED jobData

saveInterviewResultsBegin(data) ==
    /\ HookCanStart
    /\ HookBegin([of |-> "saveInterviewResults", data |-> data])

saveInterviewResultsEnd(i, reached, resultOk, updateOk) ==
    /\ HookEnd(i, "saveInterviewResults")
    /\ saveInterviewResultsResume(hook, continuations[i].data,
                                  reached, resultOk, updateOk)
    /\ UNCHANGED jobData

HookNext ==
    \/ fetchTestConfigBegin
    \/ \E results \in HookTypingResults(MakeJobConfig(jobData)) :
          saveTypingTestResultsBegin(results)
    \/ \E data \in HookInterviewData(MakeJobConfig(jobData)) :
          saveInterviewResultsBegin(data)
    \/ \E i \in 1..Len(continuations), response \in FetchOutcomes,
          jobOk, appOk \in BOOLEAN :
          fetchTestConfigEnd(i, response, jobOk, appOk)
    \/ \E i \in 1..Len(continuations), response \in FetchOutcomes,
          insertOk, updateOk, selectOk \in BOOLEAN :
          saveTypingTestResultsEnd(i, response, insertOk, updateOk, selectOk)
    \/ \E i \in 1..Len(continuations), reached, resultOk, updateOk \in BOOLEAN :
          saveInterviewResultsEnd(i, reached, resultOk, updateOk)

HookSpec == Init /\ [][HookNext]_vars

(***************************************************************************)
(* The properties.                                                         *)
(***************************************************************************)

\* C1: a failed typing test is terminal for the assessment: once the
\* typing-test phase has received a result with passed = false, currentPhase
\* is never 'ai-interview' and no AIInterview is mounted.
C1_FailedTypingIsTerminal ==
    (HasPhase(testPhases, "typing-test")
        /\ PhaseOf(testPhases, "typing-test").status = "failed")
    => (currentPhase # "ai-interview" /\ interview.interviewState = "unmounted")

\* C2: the ATS gate.  While the application row still carries the score it
\* had at initialization (no update of it was requested) and that score,
\* 0 when absent, is below the job's ats_minimum_score, neither the typing
\* test nor the interview is shown or started, no question was generated, and
\* there is no overall result.
C2_AtsGate ==
    LET atsScore == IF applicationData.ai_score = Null THEN 0
                    ELSE Val(applicationData.ai_score)
    IN  (issuedUpdates = {} /\ atsScore < jobData.ats_minimum_score)
        => /\ currentPhase = "overview"
           /\ typingTest.testState = "unmounted"
           /\ interview.interviewState = "unmounted"
           /\ interview.questions = <<>>
           /\ completeInterviewCalls = 0
           /\ overallResults = Null
           /\ \A i \in 1..Len(testPhases) :
                 testPhases[i].id = "ats-check" \/ testPhases[i].results = Null

\* the gate has acted: initialization ended with the ATS failure message
C2_Witness ==
    /\ initialized
    /\ "ATS Score Requirement Not Met" \in toasts
    /\ applicationData.ai_score \in {Null, Some(40)}
    /\ jobData.typing_test_enabled

\* C3: the answer list of an interview session never holds two records with
\* the same questionId.
C3_OneAnswerPerQuestion ==
    \A i, j \in 1..Len(interview.answers) :
        interview.answers[i].questionId = interview.answers[j].questionId => i = j

\* C4: completeInterview runs at most once in an interview session, and
\* only when an answer is submitted, by the button or by the timeout, while
\* the current question is the last one: a step in which it runs starts in a
\* session that is active (it has not completed before) and shows its last
\* question, and it is a step of handleSubmitAnswer or handleAutoSubmit.
C4_CompletesOnceAtLastQuestion ==
    [][completeInterviewCalls' # completeInterviewCalls =>
          /\ completeInterviewCalls' = completeInterviewCalls + 1
          /\ interview.interviewState = "active"
          /\ interview.currentQuestionIndex = Len(interview.questions) - 1
          /\ handleSubmitAnswer \/ handleAutoSubmit
    ]_vars

\* C5: every update of the application row requested for a completed
\* interview sets status 'Under Review' and ai_score = percentageScore when
\* the interview passed, status 'Rejected' and ai_score = null when it failed.
C5_InterviewStatusUpdates ==
    \A u \in issuedUpdates :
        /\ u.update.status = Some(IF u.passed THEN "Under Review" ELSE "Rejected")
        /\ u.update.ai_score = Some(IF u.passed THEN Some(u.percentageScore) ELSE Null)

\* C6: a phase's results are assigned at most once, and a phase that is
\* completed or failed never changes again.
C6_PhaseResultsAssignedOnce ==
    [][\A i \in 1..Len(testPhases) :
          /\ testPhases[i].results # Null =>
                testPhases'[i].results = testPhases[i].results
          /\ testPhases[i].status \in {"completed", "failed"} =>
                testPhases'[i] = testPhases[i]
    ]_vars

\* C7: at most one phase has status 'active'; the coordinator renders at
\* most one phase view, the mounted children are exactly the rendered ones,
\* and a typing session and an interview session never exist together.
C7_OnePhaseAtATime ==
    LET shown == RenderedChildren(loading, jobConfig, candidateInfo, currentPhase)
    IN  /\ Cardinality({i \in 1..Len(testPhases) : testPhases[i].status = "active"}) <= 1
        /\ Cardinality(shown) <= 1
        /\ typingTest.testState # "unmounted" <=> "typing-test" \in shown
        /\ interview.interviewState # "unmounted" <=> "ai-interview" \in shown
        /\ ~(typingTest.testState # "unmounted" /\ interview.interviewState # "unmounted")

\* the typing test runs and there is no interview session
C7_Witness ==
    /\ typingTest.testState = "active"
    /\ currentPhase = "typing-test"
    /\ interview.interviewState = "unmounted"

\* C8: the phases run in the fixed order.  While the typing-test phase is
\* pending the interview is neither shown nor mounted and has no results,
\* and a click on Start Next Phase shows the earliest pending phase.
C8_PhaseOrder ==
    /\ [](\A i \in 1..Len(testPhases) :
             (testPhases[i].id = "typing-test" /\ testPhases[i].status = "pending")
             => /\ currentPhase # "ai-interview"
                /\ interview.interviewState = "unmounted"
                /\ \A j \in 1..Len(testPhases) :
                      testPhases[j].id = "ai-interview" =>
                          /\ testPhases[j].results = Null
                          /\ j > i)
    /\ [][startNextPhase =>
             \E i \in 1..Len(testPhases) :
                /\ testPhases[i].status = "pending"
                /\ \A j \in 1..(i - 1) : testPhases[j].status # "pending"
                /\ currentPhase' = testPhases[i].id
       ]_vars

\* Start Next Phase chose the typing test while the interview was pending too
C8_Witness ==
    /\ currentPhase = "typing-test"
    /\ typingTest.testState = "ready"
    /\ \E i, j \in 1..Len(testPhases) :
          /\ testPhases[i].id = "typing-test" /\ testPhases[i].status = "pending"
          /\ testPhases[j].id = "ai-interview" /\ testPhases[j].status = "pending"

\* C9: a phase that was explicitly started and is being shown has status
\* 'active'.
C9_StartedPhaseIsActive ==
    \A i \in 1..Len(testPhases) :
        (testPhases[i].id = currentPhase
            /\ currentPhase \in RenderedChildren(loading, jobConfig, candidateInfo,
                                                 currentPhase))
        => testPhases[i].status = "active"

\* C10: once initialization has loaded the job and the application, the
\* phase list holds an ats-check phase, 'completed' if the candidate's score
\* (0 when absent) is at least ats_minimum_score and 'failed' otherwise.
C10_AtsCheckRecorded ==
    LET atsScore == IF applicationData.ai_score = Null THEN 0
                    ELSE Val(applicationData.ai_score)
    IN  (initialized /\ "Initialization Error" \notin toasts /\ issuedUpdates = {})
        => /\ HasPhase(testPhases, "ats-check")
           /\ PhaseOf(testPhases, "ats-check").status =
                 IF atsScore >= jobData.ats_minimum_score THEN "completed" ELSE "failed"

\* C11: every finalized typing test's result has passed = TRUE exactly when
\* its wpm is at least the minimum wpm, its accuracy is at least the minimum
\* accuracy and its fraud score is below 0.7 (70 hundredths).
C11_TypingVerdict ==
    \A r \in FinalizedTypingResults :
        r.passed <=> /\ r.wpm >= Val(jobConfig).minimumWpm
                     /\ r.accuracy >= Val(jobConfig).minimumAccuracy
                     /\ r.fraudScore < 70

\* a test that meets both minimums exactly with a fraud score of 0.5 passed
C11_Witness ==
    \E r \in FinalizedTypingResults :
        /\ r.wpm = Val(jobConfig).minimumWpm
        /\ r.accuracy = Val(jobConfig).minimumAccuracy
        /\ r.fraudScore = 50
        /\ r.passed

\* C12: once a typing test has finalized, nothing changes its recorded input
\* and no further result is produced for it: a step taken while the test is
\* completed and stays mounted leaves userInput as it was, and no step taken
\* while the test is completed runs handleTestComplete again.
C12_TypingCompletionIdempotent ==
    [][typingTest.testState = "completed" =>
          /\ typingTest'.testState = "completed" =>
                 typingTest'.userInput = typingTest.userInput
          /\ ~(/\ Len(continuations') = Len(continuations) + 1
               /\ continuations'[Len(continuations')].of = "handleTestComplete")
    ]_vars

\* C13: the fraud score of a result, in hundredths, is 30 if the average
\* interval between keystrokes is below 50 ms (the average of no interval
\* being 0), plus 20 if the focus was lost more than twice, plus 20 if there
\* is an alert other than those of the focus losses; so a fast typist with 3
\* focus losses and no other alert scores 50.  Without fraud detection the
\* score is 0 and there is no indicator.
C13_FraudScoreRule ==
    [][(/\ Len(continuations') = Len(continuations) + 1
        /\ continuations'[Len(continuations')].of = "handleTestComplete")
       => LET t == typingTest
              r == continuations'[Len(continuations')].results
              ks == t.keystrokeData
              intervals == [i \in 1..(Len(ks) - 1) |-> ks[i + 1].timeBetweenKeystrokes]
              fast == SumSeq(intervals) < 50 * Len(intervals) \/ Len(intervals) = 0
              others == SelectSeq(t.fraudAlerts,
                                  LAMBDA a : a # "Browser focus lost during test")
          IN  IF Val(jobConfig).fraudDetectionEnabled
              THEN r.fraudScore = (IF fast THEN 30 ELSE 0)
                                  + (IF t.focusLostCount > 2 THEN 20 ELSE 0)
                                  + (IF Len(others) > 0 THEN 20 ELSE 0)
              ELSE r.fraudScore = 0 /\ r.fraudIndicators = <<>>
    ]_vars

\* C14: the fraud score of every TypingTestResult lies between 0.0 and 1.0
\* (0 and 100 hundredths).
C14_FraudScoreRange ==
    \A r \in FinalizedTypingResults : r.fraudScore >= 0 /\ r.fraudScore <= 100

\* a result with every term of the score: fast typing, more than two focus
\* losses and alerts
C14_Witness ==
    \E r \in FinalizedTypingResults :
        /\ r.fraudScore = 70
        /\ Len(r.fraudIndicators) >= 5

\* C15: for every input, text and elapsed time calculateStats gives an
\* accuracy between 0 and 100 and a wpm of at least 0, also for an input
\* longer than the text, and for the empty input it gives accuracy 100
\* whatever the elapsed time.
C15_StatsRanges ==
    (evaluated # Null /\ Val(evaluated).fn = "calculateStats") =>
        LET call == Val(evaluated)
        IN  /\ call.result.accuracy >= 0
            /\ call.result.accuracy <= 100
            /\ call.result.wpm >= 0
            /\ call.input = <<>> => call.result.accuracy = 100

\* an input longer than the text, partly right, after some time
C15_Witness ==
    /\ evaluated # Null
    /\ Val(evaluated).fn = "calculateStats"
    /\ Len(Val(evaluated).input) > Len(Val(evaluated).text)
    /\ Val(evaluated).elapsedSeconds > 0
    /\ Val(evaluated).result.accuracy \in 1..99
    /\ Val(evaluated).result.wpm > 0

\* C16: calculateStats counts the equal and the unequal positions among the
\* first min(len(input), len(text)) characters, so that the errors are that
\* minimum less the correct characters; wpm is (correct / 5) / minutes
\* rounded, and 0 when no time has passed; accuracy is
\* correct / len(input) * 100 rounded; a text of 300 characters typed as it
\* stands in one minute gives wpm 60 and accuracy 100.
C16_StatsDefinition ==
    (evaluated # Null /\ Val(evaluated).fn = "calculateStats") =>
        LET call == Val(evaluated)
            compared == IF Len(call.input) < Len(call.text)
                        THEN Len(call.input) ELSE Len(call.text)
            correct == Cardinality({i \in 1..compared : call.input[i] = call.text[i]})
            seconds == call.elapsedSeconds
        IN  /\ call.result.errorsCount = compared - correct
            /\ call.result.wpm =
                  IF seconds = 0 THEN 0
                  ELSE (2 * 60 * correct + 5 * seconds) \div (2 * 5 * seconds)
            /\ Len(call.input) > 0 =>
                  call.result.accuracy =
                      (2 * 100 * correct + Len(call.input)) \div (2 * Len(call.input))
            /\ (Len(call.input) = 300 /\ call.input = call.text /\ seconds = 60) =>
                  call.result.wpm = 60 /\ call.result.accuracy = 100

\* the text of 300 characters typed as it stands in one minute
C16_Witness ==
    /\ evaluated # Null
    /\ Val(evaluated).fn = "calculateStats"
    /\ Len(Val(evaluated).input) = 300
    /\ Val(evaluated).input = Val(evaluated).text
    /\ Val(evaluated).elapsedSeconds = 60
    /\ Val(evaluated).result.wpm = 60

\* C17: for a total N and a distribution over the five categories the
\* questions generated for a category number round(percentage / 100 * N),
\* each category on its own and with no adjustment of the sum, which may
\* differ from N; N = 20 with 30/25/15/15/15 gives 6, 5, 3, 3, 3.
C17_QuestionAllocation ==
    (evaluated # Null /\ Val(evaluated).fn = "generateInterviewQuestions") =>
        LET call == Val(evaluated)
            total == call.config.totalInterviewQuestions
            generated(c) ==
                Cardinality({i \in 1..Len(call.result) : call.result[i].category = c})
        IN  /\ \A i \in 1..Len(Categories) :
                  generated(Categories[i]) =
                      (2 * call.config.questionDistribution[Categories[i]] * total + 100)
                          \div 200
            /\ (total = 20 /\ call.config.questionDistribution = DefaultDistribution) =>
                  /\ generated("coding") = 6
                  /\ generated("dsa") = 5
                  /\ generated("education") = 3
                  /\ generated("achievements") = 3
                  /\ generated("problem_solving") = 3

\* a configuration whose questions are more than the total asked for
C17_Witness ==
    /\ evaluated # Null
    /\ Val(evaluated).fn = "generateInterviewQuestions"
    /\ Val(evaluated).config.totalInterviewQuestions > 0
    /\ Len(Val(evaluated).result) > Val(evaluated).config.totalInterviewQuestions

\* C18: the percentageScore of an interview is the mean of the aiScore of
\* all its evaluations, rounded, and lies between 0 and 100; passed is TRUE
\* exactly when percentageScore is at least the minimum passing score;
\* scores of 80 and 60 with a minimum of 70 give 70 and passed.
C18_InterviewVerdict ==
    (evaluated # Null /\ Val(evaluated).fn = "calculateResults") =>
        LET call == Val(evaluated)
            scores == [i \in 1..Len(call.result.evaluations) |->
                          call.result.evaluations[i].aiScore]
            count == Len(scores)
        IN  /\ call.result.percentageScore = (2 * SumSeq(scores) + count) \div (2 * count)
            /\ call.result.percentageScore \in 0..100
            /\ call.result.passed <=>
                  call.result.percentageScore >= call.config.minimumPassingScore
            /\ (scores = <<80, 60>> /\ call.config.minimumPassingScore = 70) =>
                  call.result.percentageScore = 70 /\ call.result.passed

\* two answers scored 80 and 60 against a minimum of 70
C18_Witness ==
    /\ evaluated # Null
    /\ Val(evaluated).fn = "calculateResults"
    /\ Len(Val(evaluated).result.evaluations) = 2
    /\ Val(evaluated).result.evaluations[1].aiScore = 80
    /\ Val(evaluated).result.evaluations[2].aiScore = 60
    /\ Val(evaluated).config.minimumPassingScore = 70
    /\ Val(evaluated).result.passed

\* C19: when the countdown of a question reaches 0 in an active interview,
\* the step of handleAutoSubmit records one Answer for the current question,
\* with autoSubmitted = TRUE and timeSpent = the question's timeLimit, and
\* leaves the interview where handleSubmitAnswer leaves it in the same
\* state: on the next question with its full time, or completed after the
\* last question with completeInterview run once.
C19_AutoSubmitOnTimeout ==
    [][((handleAutoSubmit \/ handleSubmitAnswer) /\ interview.interviewState = "active")
       => LET iv == interview
              question == CurrentQuestion(iv)
              last == iv.currentQuestionIndex = Len(iv.questions) - 1
              recorded == interview'.answers[Len(interview'.answers)]
          IN  /\ Len(interview'.answers) = Len(iv.answers) + 1
              /\ SubSeq(interview'.answers, 1, Len(iv.answers)) = iv.answers
              /\ recorded.questionId = question.id
              /\ recorded.answer = iv.currentAnswer
              /\ handleAutoSubmit =>
                     /\ iv.timeRemaining = 0
                     /\ recorded.autoSubmitted
                     /\ recorded.timeSpent = question.timeLimit
              /\ IF last
                 THEN /\ interview'.interviewState = "completed"
                      /\ interview'.currentQuestionIndex = iv.currentQuestionIndex
                      /\ completeInterviewCalls' = completeInterviewCalls + 1
                 ELSE /\ interview'.interviewState = "active"
                      /\ interview'.currentQuestionIndex = iv.currentQuestionIndex + 1
                      /\ interview'.currentAnswer = EmptyText
                      /\ interview'.timeRemaining =
                            iv.questions[iv.currentQuestionIndex + 2].timeLimit
                      /\ completeInterviewCalls' = completeInterviewCalls
    ]_vars

\* the first of two questions was submitted by the timeout and the second
\* one is being answered
C19_Witness ==
    /\ interview.interviewState = "active"
    /\ interview.currentQuestionIndex = 1
    /\ Len(interview.answers) = 1
    /\ interview.answers[1].autoSubmitted
    /\ interview.answers[1].timeSpent = interview.questions[1].timeLimit

\* C20: when the fetch of the job row or of the application row fails,
\* initializeTest ends with the error shown to the user; from then on there
\* is no phase list, no phase is started or can be started, and no update
\* of the application row is issued.
C20_LoadFailure ==
    "Initialization Error" \in toasts =>
        /\ initialized
        /\ testPhases = <<>>
        /\ currentPhase = "overview"
        /\ typingTest = TypingUnmounted
        /\ interview = InterviewUnmounted
        /\ ~StartButtonEnabled
        /\ issuedUpdates = {}
        /\ applicationData.status = "Applied"

\* initializeTest has ended on a failed fetch
C20_Witness ==
    /\ initialized
    /\ "Initialization Error" \in toasts
    /\ loading

\* the persisted value is a map of the five categories, or the text of one
WellFormedDistribution(raw) ==
    /\ raw # Null
    /\ IF IsString(Val(raw))
       THEN /\ JSONParse(Val(raw).text) # Null
            /\ DOMAIN Val(JSONParse(Val(raw).text)) = DOMAIN DefaultDistribution
       ELSE DOMAIN Val(raw) = DOMAIN DefaultDistribution

\* C21: for every persisted question_distribution that is not a well-formed
\* map of the five categories (a text that does not parse, a text that
\* parses to another shape, null, a map with missing keys) the configuration
\* initializeTest hands on has the default 30/25/15/15/15 distribution and
\* loading has ended.
C21_MalformedDistributionDefaults ==
    (jobConfig # Null /\ ~WellFormedDistribution(jobData.question_distribution)) =>
        /\ ~loading
        /\ DOMAIN Val(jobConfig).questionDistribution = DOMAIN DefaultDistribution
        /\ Val(jobConfig).questionDistribution = DefaultDistribution

\* C22: when persisting the application status of a completed interview
\* fails, the failure is shown to the user and the flow is not marked
\* complete: the interview phase is not recorded as completed and no overall
\* result is published by that step.
C22_PersistenceFailureHandling ==
    [][completeInterviewResume(FALSE) =>
          /\ toasts' # toasts
          /\ testPhases' = testPhases
          /\ overallResults' = overallResults
    ]_vars

\* C23: onCancel of the typing test or of the interview returns the
\* coordinator to the overview, leaves the status and the results of every
\* phase and the overall result as they were and requests nothing of the
\* store; and a phase that is entered starts from the state of a freshly
\* mounted component, with no input, answers or timers of an earlier attempt.
C23_Cancellation ==
    [][/\ (typingCancel \/ interviewCancel) =>
              /\ currentPhase' = "overview"
              /\ testPhases' = testPhases
              /\ overallResults' = overallResults
              /\ <<issuedUpdates, applicationData, tables, hook>>' =
                     <<issuedUpdates, applicationData, tables, hook>>
              /\ typingTest' = TypingUnmounted
              /\ interview' = InterviewUnmounted
       /\ (currentPhase' # currentPhase /\ currentPhase' = "typing-test") =>
              \E text \in TEST_PARAGRAPHS :
                  typingTest' = TypingMounted(Val(jobConfig), text)
       /\ (currentPhase' # currentPhase /\ currentPhase' = "ai-interview") =>
              interview' = InterviewMounted
    ]_vars

\* the interview was cancelled on a question, and nothing was recorded or
\* requested
C23_Witness ==
    /\ cancelled = Some("ai-interview")
    /\ currentPhase = "overview"
    /\ interview = InterviewUnmounted
    /\ PhaseOf(testPhases, "ai-interview").status = "pending"
    /\ overallResults = Null
    /\ issuedUpdates = {}

\* C24: no timer callback of a phase that has ended acts on the coordinator.
\* The countdown of the typing test and its timeout run only while the
\* typing test is the current phase, the countdown of a question and its
\* auto-submit only while the interview is; and the delayed switch scheduled
\* by a passed typing test, when a phase was cancelled since it was
\* scheduled, changes neither the current phase nor the state of a phase.
C24_NoStaleTimerCallback ==
    [][/\ (typingTick \/ typingTimeout) => currentPhase = "typing-test"
       /\ (questionTick \/ handleAutoSubmit) => currentPhase = "ai-interview"
       /\ (phaseSwitchTimeout /\ cancelled # Null) =>
              /\ currentPhase' = currentPhase
              /\ testPhases' = testPhases
              /\ typingTest' = typingTest
              /\ interview' = interview
    ]_vars

\* C25: every field of the TypingTestResult handed to saveTypingTestResults
\* (wpm, accuracy, charactersTyped, errorsMade, correctionsMade, timeSpent,
\* passed, fraudScore, fraudIndicators) is in its column of the row that was
\* stored, with the same value, and is read back so by the refresh, whether
\* handleTypingTest or the direct insert of the fallback wrote the row.
C25_TypingResultRoundTrip ==
    (/\ evaluated # Null
     /\ Val(evaluated).fn = "saveTypingTestResults"
     /\ Val(evaluated).result
     /\ hook.typingResults # Null) =>
        LET results == Val(evaluated).results
            row == Val(hook.typingResults)
        IN  /\ tables.typing_test_results = <<row>>
            /\ row.wpm = Some(results.wpm)
            /\ row.accuracy = Some(results.accuracy)
            /\ row.characters_typed = Some(results.charactersTyped)
            /\ row.errors_made = Some(results.errorsMade)
            /\ row.corrections_made = Some(results.correctionsMade)
            /\ row.time_spent = Some(results.timeSpent)
            /\ row.passed = Some(results.passed)
            /\ row.fraud_score = Some(results.fraudScore)
            /\ row.fraud_indicators = Some(results.fraudIndicators)

\* C26: when the configuration disables the typing test, the phase list
\* holds the typing-test phase with status 'skipped', and the TypingTest is
\* never rendered.
C26_DisabledTypingTestSkipped ==
    (jobConfig # Null /\ ~Val(jobConfig).typingTestEnabled) =>
        /\ HasPhase(testPhases, "typing-test")
        /\ PhaseOf(testPhases, "typing-test").status = "skipped"
        /\ "typing-test" \notin
               RenderedChildren(loading, jobConfig, candidateInfo, currentPhase)
        /\ typingTest = TypingUnmounted

\* C27: whenever the call of the edge function fails, by a response that is
\* not OK or by the request itself failing, and the direct reads of the job
\* row and of the application row succeed, fetchTestConfig ends with
\* jobConfig and applicationData set, error = null and loading = false.
C27_FetchTestConfigFallback ==
    (/\ evaluated # Null
     /\ Val(evaluated).fn = "fetchTestConfig"
     /\ Val(evaluated).response # "ok"
     /\ Val(evaluated).jobOk /\ Val(evaluated).appOk) =>
        /\ hook.jobConfig = Some(jobData)
        /\ hook.applicationData = Some(applicationData)
        /\ hook.error = Null
        /\ ~hook.loading

\* C28: handleInterview is all-or-nothing.  When it answers with an error,
\* no interview_questions row, no interview_results row and no change of the
\* application row remain of the request; when it answers success, a row of
\* every question and the result row are stored.
C28_InterviewHandlerAllOrNothing ==
    [][\A resultOk, updateOk \in BOOLEAN :
          saveInterviewResults(TRUE, resultOk, updateOk) =>
              IF resultOk
              THEN /\ Len(tables'.interview_questions) = Len(InterviewData.questions)
                   /\ Len(tables'.interview_results) = 1
              ELSE /\ tables' = tables
                   /\ applicationData' = applicationData
    ]_vars

\* C29: getApplicationStatus returns canTakeExam = true exactly when the ATS
\* score is at least the job's minimum and either the typing test is
\* enabled and there is no typing result, or (the typing test is disabled
\* or the latest typing result passed) and there is no interview result;
\* and an application with a failed typing result or with any interview
\* result is never offered the exam.
C29_ExamEligibility ==
    (evaluated # Null /\ Val(evaluated).fn = "getApplicationStatus") =>
        LET application == Val(evaluated).application
            RowsOf(array) == IF array = Null THEN <<>> ELSE Val(array)
            LatestResult(rows) ==
                CHOOSE r \in {rows[i] : i \in 1..Len(rows)} :
                    \A i \in 1..Len(rows) : rows[i].created_at <= r.created_at
            typing == RowsOf(application.typing_test_results)
            interviews == RowsOf(application.interview_results)
            canTakeExam == Val(evaluated).result.canTakeExam
        IN  /\ canTakeExam <=>
                  /\ ~AtsBelowMinimum(application)
                  /\ \/ application.job.typing_test_enabled /\ typing = <<>>
                     \/ /\ \/ ~application.job.typing_test_enabled
                           \/ typing # <<>> /\ LatestResult(typing).passed
                        /\ interviews = <<>>
            /\ ((\E i \in 1..Len(typing) : ~typing[i].passed) \/ interviews # <<>>)
                   => ~canTakeExam

\* C30: once initializeTest found the ATS requirement met, every later
\* evaluation of the gate on the application row, by initializeTest or by
\* getApplicationStatus of the exam list, finds it met, and the score the
\* gate reads is the score it read then: completing the interview does not
\* change it.
C30_AtsGateStable ==
    (jobConfig # Null /\ candidateInfo # Null) =>
        /\ ~AtsRequirementNotMet(CandidateAtsScore(applicationData), jobData)
        /\ ~AtsBelowMinimum([ai_score |-> applicationData.ai_score,
                             job |-> [ats_minimum_score |-> jobData.ats_minimum_score]])
        /\ CandidateAtsScore(applicationData) = Val(candidateInfo).atsScore

\* C31: the page renders the TestCoordinator only when checkAuthorization
\* found a user, read the application of the job, and found the user to be
\* its candidate or an HR member of the job's company; and when the check
\* ended in any other way (no user, a failed read, neither role, an
\* exception) authorized is false.
C31_AccessControl ==
    (evaluated # Null /\ Val(evaluated).fn = "ApplicantTest") =>
        LET page == Val(evaluated)
            established ==
                /\ page.user # Null
                /\ page.data # Null
                /\ \/ Val(page.data).candidates.user_profile_id = Val(page.user).id
                   \/ page.hrCheck # Null
        IN  /\ PageRenders(page) = "TestCoordinator" => established
            /\ page.authorized => established
            /\ (page.pc = "done" /\ (page.threw \/ page.navigated # Null)) =>
                   ~page.authorized

\* the check has ended for an HR member who is not the candidate, and the
\* TestCoordinator is rendered
C31_Witness ==
    /\ evaluated # Null
    /\ Val(evaluated).fn = "ApplicantTest"
    /\ PageRenders(Val(evaluated)) = "TestCoordinator"
    /\ Val(evaluated).hrCheck # Null
    /\ Val(Val(evaluated).data).candidates.user_profile_id # Val(Val(evaluated).user).id

\* C32: the TypingTestResult of a test that ends because the input reached
\* the length of the reference text is computed from that input, the
\* keystroke that ended the test included: its charactersTyped is the
\* length of the final input, at least the length of the reference text.
C32_FinalInputCounted ==
    [][\A newInput \in NewInputs(typingTest.userInput), interval \in KeystrokeIntervals :
          (/\ handleInputChange(newInput, interval)
           /\ Len(newInput) >= Len(typingTest.currentText)) =>
              LET results == continuations'[Len(continuations')].results
              IN  /\ results.charactersTyped = Len(newInput)
                  /\ results.charactersTyped >= Len(typingTest.currentText)
    ]_vars

\* C33: for a configuration of at least one question whose distribution
\* over the five categories sums to 100, an interview in state 'active' has
\* a question list that is not empty and a currentQuestionIndex within it.
C33_InterviewStartWellDefined ==
    (/\ interview.interviewState = "active"
     /\ Val(jobConfig).totalInterviewQuestions >= 1
     /\ DOMAIN Val(jobConfig).questionDistribution = DOMAIN DefaultDistribution
     /\ SumSeq([i \in 1..Len(Categories) |->
                   Val(jobConfig).questionDistribution[Categories[i]]]) = 100) =>
        /\ Len(interview.questions) > 0
        /\ interview.currentQuestionIndex >= 0
        /\ interview.currentQuestionIndex < Len(interview.questions)

\* C34: the countdown ticks during which one question is displayed never
\* add up to more than its timeLimit, also across Previous and Next.  The
\* seconds a question was displayed before are the timeSpent of the answer
\* recorded when it was left; so a question that is displayed again must
\* start with no more time than that left of its timeLimit.
C34_TimeLimitAcrossNavigation ==
    [][(/\ interview'.interviewState = "active"
        /\ interview'.currentQuestionIndex # interview.currentQuestionIndex
        /\ HasCurrentQuestion(interview')) =>
           \A i \in 1..Len(interview'.answers) :
               interview'.answers[i].questionId = CurrentQuestion(interview').id =>
                   interview'.timeRemaining + interview'.answers[i].timeSpent
                       <= CurrentQuestion(interview').timeLimit
    ]_vars

\* C35: in the InterviewResults that completeInterview computes,
\* questionsCompleted <= questionsAttempted <= the number of generated
\* questions, whatever submits, auto-submits and Previous steps led to it.
C35_AttemptedWithinQuestions ==
    [][((handleSubmitAnswer \/ handleAutoSubmit)
        /\ Len(continuations') > Len(continuations)) =>
           LET results == continuations'[Len(continuations')].results
           IN  /\ results.questionsCompleted <= results.questionsAttempted
               /\ results.questionsAttempted <= Len(interview.questions)
    ]_vars

\* C36: once an interview is active, the countdown alone auto-submits the
\* remaining questions and the interview completes and hands its results to
\* the coordinator (unless the candidate ends it with the End Interview
\* button, the one action of theirs that stops the countdown for good).
C36_TimerDrivenCompletion ==
    (interview.interviewState = "active")
        ~> (\/ cancelled = Some("ai-interview")
            \/ /\ HasPhase(testPhases, "ai-interview")
               /\ PhaseOf(testPhases, "ai-interview").results # Null)

\* C37: the two persistence paths of a typing result agree: for the result
\* that saveTypingTestResults was called with, the update of the application
\* row that handleTypingTest requests equals the one that the fallback of
\* the hook requests (for a passed result neither requests one), and the
\* update the call issued is that one.
C37_PersistencePathsAgree ==
    (evaluated # Null /\ Val(evaluated).fn = "saveTypingTestResults") =>
        LET results == Val(evaluated).results
        IN  /\ handleTypingTestStatusUpdate(results) = FallbackStatusUpdate(results)
            /\ \A u \in issuedUpdates :
                  Some(u.update) = handleTypingTestStatusUpdate(results)

\* C38: in the testing hook, loading is true whenever at least one of
\* fetchTestConfig, saveTypingTestResults and saveInterviewResults is in
\* flight and false when none is, also when two of them overlap.
C38_LoadingWhileInFlight ==
    hook.loading <=> (continuations # <<>>)

====
